---------------------------- MODULE Spec2Model ----------------------------
(***************************************************************************)
(* Model of the company-matching API (src/src/ingest/merge.ts, the part    *)
(* that is src/api/server.ts): catalog load, the canonicalizers, the       *)
(* scorer and the POST /match handler with its fallback cascade, filter,   *)
(* sort and pagination.                                                    *)
(*                                                                         *)
(* Strings are sequences of one-character strings.  Scores are integers in *)
(* thousandths of a point (5 points = 5000).  page and perPage values are  *)
(* integers in halves (perPage 5.5 = 11), so that fractional inputs can be *)
(* expressed.  Catalog positions are 0-based as in the code; the catalog   *)
(* itself is a sequence, so position i is profiles[i + 1].                 *)
(***************************************************************************)
EXTENDS Integers, Sequences, FiniteSets, TLC

(***************************************************************************)
(* Characters and basic string functions of the platform                   *)
(***************************************************************************)
UpperSeq ==
  <<"A","B","C","D","E","F","G","H","I","J","K","L","M",
    "N","O","P","Q","R","S","T","U","V","W","X","Y","Z">>

LowerSeq ==
  <<"a","b","c","d","e","f","g","h","i","j","k","l","m",
    "n","o","p","q","r","s","t","u","v","w","x","y","z">>

DigitSeq == <<"0","1","2","3","4","5","6","7","8","9">>

Range(s) == { s[i] : i \in 1..Len(s) }

UpperSet == Range(UpperSeq)

LowerSet == Range(LowerSeq)

DigitSet == Range(DigitSeq)

IsDigit(c) == c \in DigitSet

IsUpper(c) == c \in UpperSet

IsSpace(c) == c = " "

\* the lower-case form of every upper-case letter
LowerOf == [c \in UpperSet |-> LowerSeq[CHOOSE i \in 1..26 : UpperSeq[i] = c]]

\* String.prototype.toLowerCase on one character
toLowerChar(c) == IF c \in UpperSet THEN LowerOf[c] ELSE c

toLowerCase(s) == [i \in 1..Len(s) |-> toLowerChar(s[i])]

\* [a-z0-9]
IsAlnum(c) == c \in LowerSet \/ c \in DigitSet

RECURSIVE TrimStart(_)
TrimStart(s) ==
  IF s # <<>> /\ IsSpace(Head(s)) THEN TrimStart(Tail(s)) ELSE s

RECURSIVE TrimEnd(_)
TrimEnd(s) ==
  IF s # <<>> /\ IsSpace(s[Len(s)]) THEN TrimEnd(SubSeq(s, 1, Len(s) - 1)) ELSE s

\* String.prototype.trim
trim(s) == TrimEnd(TrimStart(s))

\* s.slice(n) for 0 <= n
DropFirst(s, n) == IF n >= Len(s) THEN <<>> ELSE SubSeq(s, n + 1, Len(s))

StartsWith(s, p) == Len(s) >= Len(p) /\ SubSeq(s, 1, Len(p)) = p

\* a case-insensitive prefix test (the /i flag)
StartsWithCI(s, p) == StartsWith(toLowerCase(s), p)

EndsWith(s, p) == Len(s) >= Len(p) /\ SubSeq(s, Len(s) - Len(p) + 1, Len(s)) = p

\* the first index at which p occurs in s, 0 when it does not
IndexOf(s, p) ==
  LET at == { i \in 1..(Len(s) - Len(p) + 1) : SubSeq(s, i, i + Len(p) - 1) = p }
  IN  IF at = {} THEN 0 ELSE CHOOSE i \in at : \A j \in at : i <= j

\* String.prototype.includes
includes(s, p) == p = <<>> \/ IndexOf(s, p) # 0

\* s.replace(/p/i, r) for a literal lower-case pattern p: the first match only
ReplaceFirstCI(s, p, r) ==
  LET i == IndexOf(toLowerCase(s), p)
  IN  IF i = 0 THEN s
      ELSE SubSeq(s, 1, i - 1) \o r \o DropFirst(s, i + Len(p) - 1)

\* s.replace(/^p/, r) for a literal pattern p
ReplacePrefix(s, p, r) == IF StartsWith(s, p) THEN r \o DropFirst(s, Len(p)) ELSE s

ReplacePrefixCI(s, p, r) == IF StartsWithCI(s, p) THEN r \o DropFirst(s, Len(p)) ELSE s

RECURSIVE SplitOn(_, _, _, _)
\* s.split(sep) for a one-character separator
SplitOn(s, sep, cur, acc) ==
  IF s = <<>> THEN Append(acc, cur)
  ELSE IF Head(s) = sep THEN SplitOn(Tail(s), sep, <<>>, Append(acc, cur))
  ELSE SplitOn(Tail(s), sep, Append(cur, Head(s)), acc)

split(s, sep) == SplitOn(s, sep, <<>>, <<>>)

RECURSIVE join(_, _)
join(parts, sep) ==
  IF parts = <<>> THEN <<>>
  ELSE IF Len(parts) = 1 THEN parts[1]
  ELSE parts[1] \o sep \o join(Tail(parts), sep)

NonEmpty(s) == s # <<>>

\* an optional field that is missing (undefined)
Absent == <<"undefined">>

\* JavaScript truthiness of an optional string
Truthy(s) == s # Absent /\ s # <<>>

\* (s || '')
OrEmpty(s) == IF Truthy(s) THEN s ELSE <<>>

Min(a, b) == IF a <= b THEN a ELSE b

Max(a, b) == IF a >= b THEN a ELSE b

(***************************************************************************)
(* Canonicalizers                                                          *)
(***************************************************************************)
normalizeText(s) == trim(toLowerCase(s))

digits(s) == SelectSeq(s, IsDigit)

last10MutRaw(s) == IF Len(s) <= 10 THEN s ELSE SubSeq(s, Len(s) - 9, Len(s))

last10(s) ==
  LET d == digits(s) IN IF Len(d) <= 10 THEN d ELSE SubSeq(d, Len(d) - 9, Len(d))

SchemeHttps == <<"h","t","t","p","s",":","/","/">>

SchemeHttp == <<"h","t","t","p",":","/","/">>

\* length of a leading match of /^https?:\/\//i, 0 when there is none
SchemeLenCI(s) ==
  IF StartsWithCI(s, SchemeHttps) THEN 8
  ELSE IF StartsWithCI(s, SchemeHttp) THEN 7 ELSE 0

\* length of a leading match of /^https?:\/\// (case-sensitive)
SchemeLen(s) ==
  IF StartsWith(s, SchemeHttps) THEN 8
  ELSE IF StartsWith(s, SchemeHttp) THEN 7 ELSE 0

\* a duplicated scheme at the start becomes one https://
CollapseSchemes(s) ==
  LET n1 == SchemeLenCI(s)
      n2 == IF n1 = 0 THEN 0 ELSE SchemeLenCI(DropFirst(s, n1))
  IN  IF n1 > 0 /\ n2 > 0 THEN SchemeHttps \o DropFirst(s, n1 + n2) ELSE s

preSanitizeUrlMutNoRepair(u) == trim(u)

\* the replacements are applied from the innermost to the outermost
preSanitizeUrl(u) ==
  ReplacePrefixCI(
    ReplacePrefixCI(
      ReplaceFirstCI(
        ReplaceFirstCI(CollapseSchemes(trim(u)),
                       <<":","/","/","h","t","t","p","s","/","/">>, <<":","/","/">>),
        <<":","/","/","h","t","t","p","/","/">>, <<":","/","/">>),
      <<"h","t","t","p","s","/","/">>, SchemeHttps),
    <<"h","t","t","p","/","/">>, SchemeHttp)

RECURSIVE SkipSlashes(_)
SkipSlashes(s) == IF s # <<>> /\ Head(s) = "/" THEN SkipSlashes(Tail(s)) ELSE s

\* the index of the first character of s that is in stop, Len(s) + 1 when none
FirstOf(s, stop) ==
  LET at == { i \in 1..Len(s) : s[i] \in stop }
  IN  IF at = {} THEN Len(s) + 1 ELSE CHOOSE i \in at : \A j \in at : i <= j

IsHostChar(c) == IsAlnum(c) \/ c \in {".", "-", "_"}

\* new URL(s) for http and https URLs without credentials, port, percent
\* escapes or dot segments: [ok, hostname, pathname]; ok = FALSE is a throw
URLThrows == [ok |-> FALSE, hostname |-> <<>>, pathname |-> <<>>]

\* host is the authority, tl what follows it
URLParts(host, tl) ==
  LET pEnd == FirstOf(tl, {"?", "#"})
  IN  IF host = <<>> \/ \E i \in 1..Len(host) : ~IsHostChar(host[i]) THEN URLThrows
      ELSE [ok |-> TRUE, hostname |-> host,
            pathname |-> IF pEnd = 1 THEN <<"/">> ELSE SubSeq(tl, 1, pEnd - 1)]

\* rest is what follows the scheme and its slashes
URLAfterScheme(rest) ==
  LET hEnd == FirstOf(rest, {"/", "?", "#"})
  IN  URLParts(toLowerCase(SubSeq(rest, 1, hEnd - 1)), DropFirst(rest, hEnd - 1))

URLOfTrimmed(s0) ==
  IF SchemeLenCI(s0) = 0 THEN URLThrows
  ELSE URLAfterScheme(SkipSlashes(DropFirst(s0, SchemeLenCI(s0))))

URL(s) == URLOfTrimmed(trim(s))

\* fixed.includes('://') ? fixed : `https://${fixed}`
WithScheme(s) == IF includes(s, <<":","/","/">>) THEN s ELSE SchemeHttps \o s

StripWww(h) == ReplacePrefix(h, <<"w","w","w",".">>, <<>>)

canonicalUrlCatch(u) ==
  LET a == toLowerCase(u)
      b == DropFirst(a, SchemeLen(a))
      c == StripWww(b)
      d == ReplacePrefix(c, <<"h","t","t","p","s","/","/">>, <<>>)
      e == ReplacePrefix(d, <<"h","t","t","p","/","/">>, <<>>)
  IN  IF EndsWith(e, <<"/">>) THEN SubSeq(e, 1, Len(e) - 1) ELSE e

\* the host, followed by the path without its trailing slash unless it is /
HostAndPath(host, p) ==
  IF p = <<"/">> \/ p = <<>> THEN host
  ELSE IF EndsWith(p, <<"/">>) THEN host \o SubSeq(p, 1, Len(p) - 1)
  ELSE host \o p

canonicalUrlTry(url, u) ==
  IF ~url.ok THEN canonicalUrlCatch(u)
  ELSE HostAndPath(StripWww(url.hostname), url.pathname)

canonicalUrl(u) == canonicalUrlTry(URL(WithScheme(preSanitizeUrl(u))), u)

FacebookCom == <<"f","a","c","e","b","o","o","k",".","c","o","m">>

canonicalFacebookCatch(u) ==
  LET a == toLowerCase(u)
      b == DropFirst(a, SchemeLen(a))
      c == StripWww(b)
      d == ReplacePrefix(c, <<"m",".">>, <<>>)
      e == ReplacePrefix(d, <<"f","b",".","c","o","m">>, FacebookCom)
  IN  IF EndsWith(e, <<"/">>) THEN SubSeq(e, 1, Len(e) - 1) ELSE e

\* url.pathname.split('/').filter(Boolean)[0] || ''
FirstSegment(pathname) ==
  LET segs == SelectSeq(split(pathname, "/"), NonEmpty)
  IN  IF segs = <<>> THEN <<>> ELSE segs[1]

\* .replace(/^m\./, '').replace(/^www\./, '').replace(/^fb\.com$/, 'facebook.com')
FacebookHost(h) ==
  LET h2 == StripWww(ReplacePrefix(h, <<"m",".">>, <<>>))
  IN  IF h2 = <<"f","b",".","c","o","m">> THEN FacebookCom ELSE h2

canonicalFacebookTry(url, u) ==
  IF ~url.ok THEN canonicalFacebookCatch(u)
  ELSE IF FacebookHost(url.hostname) # FacebookCom THEN canonicalUrl(u)
  ELSE FacebookCom \o <<"/">> \o FirstSegment(url.pathname)

canonicalFacebook(u) == canonicalFacebookTry(URL(WithScheme(u)), u)

extractHostCatch(u) ==
  LET a == toLowerCase(u) IN split(StripWww(DropFirst(a, SchemeLen(a))), "/")[1]

extractHostTry(url, u) ==
  IF url.ok THEN StripWww(url.hostname) ELSE extractHostCatch(u)

extractHost(u) == extractHostTry(URL(WithScheme(preSanitizeUrl(u))), u)

STOP ==
  {
  <<"i","n","c">>, <<"i","n","c",".">>, <<"c","o">>, <<"c","o",".">>, <<"l","l","c">>,
  <<"l","t","d">>, <<"l","t","d",".">>, <<"p","t","y">>, <<"p","t","y",".">>, <<"p","l","c">>,
  <<"c","o","r","p">>, <<"c","o","r","p",".">>, <<"c","o","m","p","a","n","y">>,
  <<"c","o","m","p","a","n","i","e","s">>, <<"g","m","b","h">>, <<"s","r","l">>, <<"s","a">>,
  <<"b","v">>, <<"n","v">>, <<"l","l","p">>, <<"p","c">>, <<"p",".","c",".">>, <<"l","p">>,
  <<"p","l","l","c">>, <<"p","t","e">>, <<"a","g">>, <<"u","s","a">>, <<"u","s">>,
  <<"t","h","e">>, <<"a","n","d">>, <<"&">> }

COMMON_TLDS ==
  {
  <<"c","o","m">>, <<"o","r","g">>, <<"n","e","t">>, <<"i","o">>, <<"c","o">>, <<"u","s">>,
  <<"u","k">>, <<"c","a">>, <<"d","e">>, <<"f","r">>, <<"a","u">>, <<"n","z">>, <<"i","n">>,
  <<"i","n","f","o">>, <<"b","i","z">>, <<"e","d","u">>, <<"g","o","v">>, <<"m","e">> }

RECURSIVE TokScan(_, _, _)
\* .replace(/[^a-z0-9]+/g, ' ').split(' ').map(t => t.trim()), empty parts dropped
TokScan(s, cur, acc) ==
  IF s = <<>> THEN (IF cur = <<>> THEN acc ELSE Append(acc, cur))
  ELSE IF IsAlnum(Head(s)) THEN TokScan(Tail(s), Append(cur, Head(s)), acc)
  ELSE TokScan(Tail(s), <<>>, IF cur = <<>> THEN acc ELSE Append(acc, cur))

\* .filter(t => t.length > 1 && !STOP.has(t))
KeepToken(t) == Len(t) > 1 /\ t \notin STOP

nameTokens(s) == SelectSeq(TokScan(toLowerCase(s), <<>>, <<>>), KeepToken)

domainTokens(host) ==
  LET parts == split(host, ".")
      kept  == IF Len(parts) > 1 /\ parts[Len(parts)] \in COMMON_TLDS
               THEN SubSeq(parts, 1, Len(parts) - 1) ELSE parts
      core  == join(kept, <<".">>)
  IN  SelectSeq(TokScan(toLowerCase(core), <<>>, <<>>), KeepToken)

\* inter / union as the pair [num, den]; 0 when either list is empty
jaccard(a, b) ==
  LET A == Range(a)
      B == Range(b)
      inter == Cardinality(A \cap B)
  IN  IF a = <<>> \/ b = <<>> THEN [num |-> 0, den |-> 1]
      ELSE [num |-> inter, den |-> Cardinality(A) + Cardinality(B) - inter]

Min3(x, y, z) == Min(x, Min(y, z))

RECURSIVE LevRow(_, _, _, _)
\* one row of the dp table: prev is dp[i-1][0..n], cur is dp[i][0..j-1]
LevRow(ai, b, prev, cur) ==
  LET j == Len(cur)
  IN  IF j > Len(b) THEN cur
      ELSE LET cost == IF ai = b[j] THEN 0 ELSE 1
               v    == Min3(prev[j + 1] + 1, cur[j] + 1, prev[j] + cost)
           IN  LevRow(ai, b, prev, Append(cur, v))

RECURSIVE LevRows(_, _, _)
\* prev is row dp[i-1], whose first entry dp[i-1][0] is i - 1
LevRows(a, b, prev) ==
  LET i == prev[1] + 1
  IN  IF i > Len(a) THEN prev ELSE LevRows(a, b, LevRow(a[i], b, prev, <<i>>))

levenshteinDistance(a, b) ==
  LevRows(a, b, [j \in 1..(Len(b) + 1) |-> j - 1])[Len(b) + 1]

\* 1 - dist / maxLen as the pair [num, den]; 1 when both are empty
levenshteinRatio(a, b) ==
  LET maxLen == Max(Len(a), Len(b))
  IN  IF maxLen = 0 THEN [num |-> 1, den |-> 1]
      ELSE [num |-> maxLen - levenshteinDistance(a, b), den |-> maxLen]

\* r >= n/d for a ratio r and a threshold n/d
AtLeast(r, n, d) == r.num * d >= n * r.den

(***************************************************************************)
(* Catalog data: the fixture of tests/api.test.ts, one more record sharing *)
(* a domain token with it, and filler records                              *)
(***************************************************************************)
W_acme == <<"h","t","t","p","s",":","/","/","a","c","m","e",".","c","o","m">>

W_contoso == <<"h","t","t","p","s",":","/","/","c","o","n","t","o","s","o",".","c","o","m">>

W_tools ==
  <<"h","t","t","p","s",":","/","/","w","w","w",".","a","c","m","e","-","t","o","o","l","s",
    ".","c","o","m","/">>

N_acme == <<"A","c","m","e"," ","I","n","c">>

N_contoso == <<"C","o","n","t","o","s","o"," ","L","L","C">>

N_tools == <<"A","c","m","e"," ","T","o","o","l","s">>

Ph_acme == <<"+","1","4","1","5","5","5","5","1","2","1","2">>

Ph_contoso == <<"+","4","4","2","0","7","1","2","3","4","5","6","7">>

Fb_acme ==
  <<"h","t","t","p","s",":","/","/","f","a","c","e","b","o","o","k",".","c","o","m","/",
    "a","c","m","e">>

\* interface CompanyProfile; only facebook of social is read by the server
CompanyProfile(website, name, phones, facebook) ==
  [website |-> website, name |-> name, phones |-> phones, facebook |-> facebook]

P_acme == CompanyProfile(W_acme, N_acme, <<Ph_acme>>, <<Fb_acme>>)

P_contoso == CompanyProfile(W_contoso, N_contoso, <<Ph_contoso>>, <<>>)

P_tools == CompanyProfile(W_tools, N_tools, <<>>, <<>>)

\* the largest catalog
MaxCatalog == 22

FillerProfile(i) ==
  CompanyProfile(
    SchemeHttps \o <<"s", LowerSeq[((i - 1) % 26) + 1]>> \o <<".","c","o","m">>,
    CASE i % 3 = 1 -> <<"S","i","t","e">>
      [] i % 3 = 2 -> Absent
      [] OTHER     -> <<"s","i","t","e">>,
    <<>>, <<>>)

PoolProfile(i) ==
  CASE i = 1 -> P_acme
    [] i = 2 -> P_contoso
    [] i = 3 -> P_tools
    [] OTHER -> FillerProfile(i)

CatalogSizes == {0, 1, 3, MaxCatalog}

\* raw.profiles of the index file
Catalogs == { [i \in 1..n |-> PoolProfile(i)] : n \in CatalogSizes }

(***************************************************************************)
(* loadIndexFrom: augmented profiles and the four lookup maps              *)
(***************************************************************************)
\* (list.map(f).filter(Boolean)) as a Set
KeySet(list) == { list[i] : i \in 1..Len(list) } \ {<<>>}

AugProfile(p, i) ==
  LET site == OrEmpty(p.website)
      host == extractHost(site)
      nn   == IF Truthy(p.name) THEN normalizeText(p.name) ELSE <<>>
  IN  [ _id           |-> i,
        _canonSite    |-> canonicalUrl(site),
        _host         |-> host,
        _domainTokens |-> IF host # <<>> THEN domainTokens(host) ELSE <<>>,
        _nameNorm     |-> nn,
        _nameTokens   |-> IF nn # <<>> THEN nameTokens(nn) ELSE <<>>,
        _last10Phones |-> KeySet([j \in 1..Len(p.phones) |-> last10(p.phones[j])]),
        _fbHandles    |-> KeySet([j \in 1..Len(p.facebook) |-> canonicalFacebook(p.facebook[j])]),
        website       |-> p.website,
        name          |-> p.name,
        phones        |-> p.phones,
        facebook      |-> p.facebook ]

\* baseProfiles.map((p, i) => ...): position i is element i + 1
AugProfiles(base) == [i \in 1..Len(base) |-> AugProfile(base[i], i - 1)]

RECURSIVE Repeat(_, _)
Repeat(x, n) == IF n <= 0 THEN <<>> ELSE <<x>> \o Repeat(x, n - 1)

\* how many times key k is pushed for one record by addToIndex
Pushes(list, k) == Cardinality({ j \in 1..Len(list) : list[j] = k })

RECURSIVE IndexIds(_, _, _)
\* the array a map holds under key k: addToIndex in catalog order, keyLists[i]
\* being the keys of position i - 1
IndexIds(keyLists, k, i) ==
  IF i > Len(keyLists) THEN <<>>
  ELSE Repeat(i - 1, Pushes(keyLists[i], k)) \o IndexIds(keyLists, k, i + 1)

RECURSIVE SetToSeq(_)
\* some listing of a set; only membership of the result is used
SetToSeq(S) ==
  IF S = {} THEN <<>> ELSE LET x == CHOOSE x \in S : TRUE IN <<x>> \o SetToSeq(S \ {x})

\* addToIndex skips the empty key
IndexMap(keyLists) ==
  LET keys == UNION { Range(keyLists[i]) : i \in 1..Len(keyLists) } \ {<<>>}
  IN  [k \in keys |-> IndexIds(keyLists, k, 1)]

LookupMaps(profs) ==
  [ byCanonSite   |-> IndexMap([i \in 1..Len(profs) |-> <<profs[i]._canonSite>>]),
    byPhone10     |-> IndexMap([i \in 1..Len(profs) |-> SetToSeq(profs[i]._last10Phones)]),
    byFacebook    |-> IndexMap([i \in 1..Len(profs) |-> SetToSeq(profs[i]._fbHandles)]),
    byDomainToken |-> IndexMap([i \in 1..Len(profs) |-> profs[i]._domainTokens]) ]

\* map.get(k), with undefined as the empty array
MapGet(map, k) == IF k \in DOMAIN map THEN map[k] ELSE <<>>

(***************************************************************************)
(* Scoring.  Points are in thousandths.                                    *)
(***************************************************************************)
Points(halves) == halves * 500

\* +2 / +1.5 / +1 / +0.5 at j >= 0.8 / 0.5 / 0.3 / 0.25
NameJaccardBucket(j) ==
  IF AtLeast(j, 8, 10) THEN Points(4)
  ELSE IF AtLeast(j, 5, 10) THEN Points(3)
  ELSE IF AtLeast(j, 3, 10) THEN Points(2)
  ELSE IF AtLeast(j, 25, 100) THEN Points(1) ELSE 0

\* +1.5 / +1 at lev >= 0.9 / 0.8
LevBucket(lev) ==
  IF AtLeast(lev, 9, 10) THEN Points(3)
  ELSE IF AtLeast(lev, 8, 10) THEN Points(2) ELSE 0

DomainJaccardBucketMutNameSteps(jw) ==
  IF AtLeast(jw, 8, 10) THEN Points(4)
  ELSE IF AtLeast(jw, 5, 10) THEN Points(3)
  ELSE IF AtLeast(jw, 3, 10) THEN Points(2)
  ELSE IF AtLeast(jw, 25, 100) THEN Points(1) ELSE 0

\* +2 / +1.5 / +1 / +0.5 at jw >= 0.8 / 0.6 / 0.4 / 0.25
DomainJaccardBucket(jw) ==
  IF AtLeast(jw, 8, 10) THEN Points(4)
  ELSE IF AtLeast(jw, 6, 10) THEN Points(3)
  ELSE IF AtLeast(jw, 4, 10) THEN Points(2)
  ELSE IF AtLeast(jw, 25, 100) THEN Points(1) ELSE 0

\* the precomputed input features of one request
PreFeatures(body) ==
  LET w == Truthy(body.website)
      n == Truthy(body.name)
  IN  [ canonSite    |-> IF w THEN canonicalUrl(body.website) ELSE <<>>,
        host         |-> IF w THEN extractHost(body.website) ELSE <<>>,
        domainTokens |-> IF w THEN domainTokens(extractHost(body.website)) ELSE <<>>,
        nameNorm     |-> IF n THEN normalizeText(body.name) ELSE <<>>,
        nameTokens   |-> IF n THEN nameTokens(normalizeText(body.name)) ELSE <<>>,
        phone10      |-> IF Truthy(body.phone) THEN last10(body.phone) ELSE <<>>,
        fbHandle     |-> IF Truthy(body.facebook) THEN canonicalFacebook(body.facebook)
                         ELSE <<>> ]

fastScore(pre, c) ==
  LET site == IF pre.canonSite # <<>> /\ pre.canonSite = c._canonSite THEN Points(10) ELSE 0
      name == IF pre.nameNorm # <<>> /\ c._nameNorm # <<>>
              THEN IF pre.nameNorm = c._nameNorm THEN Points(6)
                   ELSE NameJaccardBucket(jaccard(pre.nameTokens, c._nameTokens))
                        + LevBucket(levenshteinRatio(pre.nameNorm, c._nameNorm))
              ELSE 0
      dom  == IF pre.domainTokens # <<>> /\ c._domainTokens # <<>>
              THEN DomainJaccardBucket(jaccard(pre.domainTokens, c._domainTokens))
              ELSE 0
      ph   == IF pre.phone10 # <<>> /\ pre.phone10 \in c._last10Phones THEN Points(6) ELSE 0
      fb   == IF pre.fbHandle # <<>> /\ pre.fbHandle \in c._fbHandles THEN Points(8) ELSE 0
  IN  site + name + dom + ph + fb

\* lines 567-572: the request in profile form (inputForScore)
InputForScore(body) ==
  [ website  |-> body.website,
    name     |-> body.name,
    phones   |-> IF Truthy(body.phone) THEN <<body.phone>> ELSE <<>>,
    facebook |-> IF Truthy(body.facebook) THEN <<body.facebook>> ELSE <<>> ]

\* lines 196-210 for a = normalizeString(input.name) and
\* b = candidate._nameNorm || normalizeString(candidate.name)
scoreMatchName(a, b, c) ==
  IF a = b THEN Points(6)
  ELSE NameJaccardBucket(jaccard(nameTokens(a), c._nameTokens))
       + LevBucket(levenshteinRatio(a, b))

scoreMatchMutRawName(input, c) ==
  (IF Truthy(input.website) /\ canonicalUrl(input.website) # <<>>
      /\ canonicalUrl(input.website) = c._canonSite
   THEN Points(10) ELSE 0)
  + (IF Truthy(input.name) /\ Truthy(c.name)
     THEN scoreMatchName(input.name,
                         IF c._nameNorm # <<>> THEN c._nameNorm ELSE normalizeText(c.name), c)
     ELSE 0)
  + (IF Truthy(input.website) /\ extractHost(input.website) # <<>> /\ c._domainTokens # <<>>
     THEN DomainJaccardBucket(jaccard(domainTokens(extractHost(input.website)),
                                      c._domainTokens))
     ELSE 0)
  + (IF \E k \in 1..Len(input.phones) : last10(input.phones[k]) \in c._last10Phones
     THEN Points(6) ELSE 0)
  + (IF input.facebook # <<>> /\ canonicalFacebook(input.facebook[1]) \in c._fbHandles
     THEN Points(8) ELSE 0)

\* lines 186-241
scoreMatch(input, c) ==
  (IF Truthy(input.website) /\ canonicalUrl(input.website) # <<>>
      /\ canonicalUrl(input.website) = c._canonSite
   THEN Points(10) ELSE 0)
  + (IF Truthy(input.name) /\ Truthy(c.name)
     THEN scoreMatchName(normalizeText(input.name),
                         IF c._nameNorm # <<>> THEN c._nameNorm ELSE normalizeText(c.name), c)
     ELSE 0)
  + (IF Truthy(input.website) /\ extractHost(input.website) # <<>> /\ c._domainTokens # <<>>
     THEN DomainJaccardBucket(jaccard(domainTokens(extractHost(input.website)),
                                      c._domainTokens))
     ELSE 0)
  + (IF \E k \in 1..Len(input.phones) : last10(input.phones[k]) \in c._last10Phones
     THEN Points(6) ELSE 0)
  + (IF input.facebook # <<>> /\ canonicalFacebook(input.facebook[1]) \in c._fbHandles
     THEN Points(8) ELSE 0)

(***************************************************************************)
(* Request parsing                                                         *)
(***************************************************************************)
\* a page / perPage / minScore input after Number(): missing, NaN (a
\* non-numeric string) or a number v (page and perPage in halves, minScore
\* in thousandths)
NoNum == [k |-> "undefined", v |-> 0]

NaNInput == [k |-> "NaN", v |-> 0]

Num(v) == [k |-> "num", v |-> v]

\* Number(x ?? d) || d
NumberOr(x, d) == IF x.k = "num" /\ x.v # 0 THEN x.v ELSE d

\* z.string().trim().optional()
limitStr(x) == IF x = Absent THEN Absent ELSE trim(x)

\* QuerySchema.safeParse: the enums fail on any other string
QuerySchema(raw) ==
  [ success |-> raw.sort \in {"undefined", "score", "name", "website"}
                /\ raw.dir \in {"undefined", "asc", "desc"},
    data    |-> [raw EXCEPT !.name = limitStr(@), !.website = limitStr(@),
                            !.phone = limitStr(@), !.facebook = limitStr(@),
                            !.contains = limitStr(@)] ]

\* body.name || body.website || body.phone || body.facebook
HasField(body) ==
  Truthy(body.name) \/ Truthy(body.website) \/ Truthy(body.phone) \/ Truthy(body.facebook)

(***************************************************************************)
(* Candidate generation (lines 469-519)                                    *)
(***************************************************************************)
AddAllMutNoDedup(cands, ids) == cands \o ids

RECURSIVE AddAll(_, _)
\* ids.forEach(i => candidates.add(i)) on a Set kept in insertion order
AddAll(cands, ids) ==
  IF ids = <<>> THEN cands
  ELSE AddAll(IF Head(ids) \in Range(cands) THEN cands ELSE Append(cands, Head(ids)),
              Tail(ids))

RECURSIVE SplitRuns(_, _, _, _)
\* h.split(/[._-]+/) without the empty parts
SplitRuns(s, seps, cur, acc) ==
  IF s = <<>> THEN (IF cur = <<>> THEN acc ELSE Append(acc, cur))
  ELSE IF Head(s) \in seps
       THEN SplitRuns(Tail(s), seps, <<>>, IF cur = <<>> THEN acc ELSE Append(acc, cur))
  ELSE SplitRuns(Tail(s), seps, Append(cur, Head(s)), acc)

LongerThan2(x) == Len(x) > 2

\* the handle tokens of a facebook URL; none when new URL throws
FacebookTokens(fb) ==
  LET url == URL(fb)
  IN  IF ~url.ok THEN <<>>
      ELSE SelectSeq(SplitRuns(FirstSegment(url.pathname), {".", "_", "-"}, <<>>, <<>>),
                     LongerThan2)

\* the part of lines 471-506 that does not involve the text index: the
\* tokens that are searched and what the lookup maps hold for the query
Signals(body, maps) ==
  LET toks == IF Truthy(body.website) THEN domainTokens(extractHost(body.website)) ELSE <<>>
  IN  [ nameToks  |-> IF Truthy(body.name) THEN nameTokens(body.name) ELSE <<>>,
        exact     |-> IF Truthy(body.website)
                      THEN MapGet(maps.byCanonSite, canonicalUrl(body.website)) ELSE <<>>,
        domainIds |-> [t \in 1..Len(toks) |-> MapGet(maps.byDomainToken, toks[t])],
        phoneIds  |-> IF Truthy(body.phone)
                      THEN MapGet(maps.byPhone10, last10(body.phone)) ELSE <<>>,
        fbIds     |-> IF Truthy(body.facebook)
                      THEN MapGet(maps.byFacebook, canonicalFacebook(body.facebook))
                      ELSE <<>>,
        fbToks    |-> IF Truthy(body.facebook) THEN FacebookTokens(body.facebook) ELSE <<>> ]

\* which answers of the text index a request consults
UsesMiniFull(body) == Truthy(body.name) \/ Truthy(body.website)

UsesMiniTok(sig) == sig.nameToks # <<>> \/ sig.domainIds # <<>> \/ sig.fbToks # <<>>

RECURSIVE TokenHits(_, _, _)
\* toks.forEach(tok => miniSearch.search(tok).forEach(r => candidates.add(r.id)))
TokenHits(cands, toks, mini) ==
  IF toks = <<>> THEN cands ELSE TokenHits(AddAll(cands, mini.tok), Tail(toks), mini)

RECURSIVE DomainTokenHits(_, _, _)
\* for (const tok of toks): the map's ids, then the text hits of the token
DomainTokenHits(cands, domainIds, mini) ==
  IF domainIds = <<>> THEN cands
  ELSE DomainTokenHits(AddAll(AddAll(cands, Head(domainIds)), mini.tok),
                       Tail(domainIds), mini)

\* the signal union, in the insertion order of the candidates Set.  mini is
\* what miniSearch.search answers: mini.full to the search of a whole field,
\* mini.tok to the search of one token
SignalUnion(body, sig, mini) ==
  LET c0 == <<>>
      c1 == IF Truthy(body.name)
            THEN TokenHits(AddAll(c0, mini.full), sig.nameToks, mini)
            ELSE c0
      c2 == IF Truthy(body.website)
            THEN DomainTokenHits(AddAll(AddAll(c1, mini.full), sig.exact),
                                 sig.domainIds, mini)
            ELSE c1
      c3 == IF Truthy(body.phone) THEN AddAll(c2, sig.phoneIds) ELSE c2
      c4 == IF Truthy(body.facebook)
            THEN TokenHits(AddAll(c3, sig.fbIds), sig.fbToks, mini)
            ELSE c3
  IN  c4

\* arr.slice(0, n) for 0 <= n
Take(arr, n) == SubSeq(arr, 1, Min(n, Len(arr)))

RefIndexes(fuseRes) == [i \in 1..Len(fuseRes) |-> fuseRes[i].refIndex]

\* line 508: the condition of the strict fuzzy fallback before scoring
StrictFallbackRuns(cands, body) == cands = <<>> /\ HasField(body)

StrictFallbackMutAll(cands, body, strict) ==
  IF StrictFallbackRuns(cands, body) THEN AddAll(cands, RefIndexes(strict)) ELSE cands

\* lines 508-512: the strict fuzzy fallback before scoring, top 20 hits
StrictFallback(cands, body, strict) ==
  IF StrictFallbackRuns(cands, body) THEN AddAll(cands, RefIndexes(Take(strict, 20)))
  ELSE cands

PruneMutNewest(cands, maxCandidates) ==
  IF Len(cands) > maxCandidates
  THEN SubSeq(cands, Len(cands) - maxCandidates + 1, Len(cands))
  ELSE cands

\* Array.from(candidates).slice(0, MAX_CANDIDATES) when the set is larger
Prune(cands, maxCandidates) ==
  IF Len(cands) > maxCandidates THEN Take(cands, maxCandidates) ELSE cands

(***************************************************************************)
(* Scoring the candidates, the comparator and the safety net               *)
(***************************************************************************)
RawProfile(c) == CompanyProfile(c.website, c.name, c.phones, c.facebook)

Scored(idx, profile, score) == [idx |-> idx, profile |-> profile, score |-> score]

RECURSIVE FastScores(_, _, _)
\* fastScore at every catalog position; fastScore is a pure closure over pre,
\* so its values are computed once for a request
FastScores(pre, profs, acc) ==
  IF Len(acc) = Len(profs) THEN acc
  ELSE FastScores(pre, profs, Append(acc, fastScore(pre, profs[Len(acc) + 1])))

\* ids.map(i => ({ idx: i, profile: profiles[i], score: fastScore(profiles[i]) }))
ScoreAll(ids, profs, scores) ==
  [k \in 1..Len(ids) |->
     Scored(ids[k], RawProfile(profs[ids[k] + 1]), scores[ids[k] + 1])]

\* a.localeCompare(b) of the platform: rank of a character in the collation
\* order (punctuation, digits, letters); case decides only between strings
\* that are otherwise equal, lower case first
CollationSeq ==
  <<" ","_","-",",",";",":","!","?",".","'","(",")","@","*","/","&","#","%","+","=">>
  \o DigitSeq \o LowerSeq

CharRank ==
  [c \in Range(CollationSeq) |-> CHOOSE i \in 1..Len(CollationSeq) : CollationSeq[i] = c]

RECURSIVE CompareRanks(_, _, _)
CompareRanks(a, b, i) ==
  IF i > Len(a) /\ i > Len(b) THEN 0
  ELSE IF i > Len(a) THEN -1
  ELSE IF i > Len(b) THEN 1
  ELSE IF CharRank[a[i]] < CharRank[b[i]] THEN -1
  ELSE IF CharRank[a[i]] > CharRank[b[i]] THEN 1
  ELSE CompareRanks(a, b, i + 1)

RECURSIVE CompareCase(_, _, _)
CompareCase(a, b, i) ==
  IF i > Len(a) \/ i > Len(b) THEN 0
  ELSE IF a[i] = b[i] THEN CompareCase(a, b, i + 1)
  ELSE IF IsUpper(b[i]) THEN -1 ELSE 1

localeCompare(a, b) ==
  LET primary == CompareRanks(toLowerCase(a) \o <<>>, toLowerCase(b) \o <<>>, 1)
  IN  IF primary # 0 THEN primary ELSE CompareCase(a, b, 1)

\* the comparator of list.sort: mul * (key difference)
SortCompare(a, b, sortKey, dir) ==
  LET mul == IF dir = "asc" THEN 1 ELSE -1
  IN  IF sortKey = "name"
      THEN mul * localeCompare(OrEmpty(a.profile.name), OrEmpty(b.profile.name))
      ELSE IF sortKey = "website"
      THEN mul * localeCompare(OrEmpty(a.profile.website), OrEmpty(b.profile.website))
      ELSE mul * (a.score - b.score)

RECURSIVE InsertBy(_, _, _, _)
\* insert x behind every element y of the sorted list with compare(y, x) <= 0
InsertBy(sorted, x, sortKey, dir) ==
  IF sorted = <<>> THEN <<x>>
  ELSE IF SortCompare(Head(sorted), x, sortKey, dir) <= 0
       THEN <<Head(sorted)>> \o InsertBy(Tail(sorted), x, sortKey, dir)
  ELSE <<x>> \o sorted

RECURSIVE SortFrom(_, _, _, _)
SortFrom(sorted, rest, sortKey, dir) ==
  IF rest = <<>> THEN sorted
  ELSE SortFrom(InsertBy(sorted, Head(rest), sortKey, dir), Tail(rest), sortKey, dir)

\* Array.prototype.sort with the comparator above: a stable sort
StableSort(arr, sortKey, dir) == SortFrom(<<>>, arr, sortKey, dir)

\* Math.max(0.1, (1 - score) * factor), score in thousandths, factor in tenths
Rescale(score, tenths) == Max(100, ((1000 - score) * tenths) \div 10)

\* fuseRes.map(r => ({ idx: r.refIndex, profile: profiles[r.refIndex], score: ... }))
FuseScored(fuseRes, profs) ==
  [k \in 1..Len(fuseRes) |->
     Scored(fuseRes[k].refIndex, RawProfile(profs[fuseRes[k].refIndex + 1]),
            Rescale(fuseRes[k].score, 5))]

RECURSIVE Strided(_, _, _, _)
\* for (let i = 0; i < N && subset.length < cap; i += step) subset.push(i)
Strided(i, N, cap, step) ==
  IF i < N /\ cap > 0 THEN <<i>> \o Strided(i + step, N, cap - 1, step) ELSE <<>>

\* the positions the brute force scores.  Math.floor(N / 0) is Infinity: the
\* stride N stands for it, the loop pushing nothing when cap is 0
BruteSubset(N, maxBruteForce) ==
  LET cap == Min(maxBruteForce, N)
  IN  IF N > cap THEN Strided(0, N, cap, IF cap = 0 THEN N ELSE Max(1, N \div cap))
      ELSE [i \in 1..N |-> i - 1]

BruteForceMutUnsorted(profs, scores, maxBruteForce) ==
  Take(ScoreAll(BruteSubset(Len(profs), maxBruteForce), profs, scores), 10)

\* lines 566-587: .sort((a, b) => b.score - a.score).slice(0, 10)
BruteForce(profs, scores, maxBruteForce) ==
  Take(StableSort(ScoreAll(BruteSubset(Len(profs), maxBruteForce), profs, scores),
                  "score", "desc"),
       10)

AllZeroMutLow(scored) == \A k \in 1..Len(scored) : scored[k].score <= 1000

\* scored.every(s => s.score === 0)
AllZero(scored) == \A k \in 1..Len(scored) : scored[k].score = 0

NeedsSafetyNetMutEmptyOnly(scored, body) == scored = <<>> /\ HasField(body)

\* line 556: the safety net after scoring is entered
NeedsSafetyNet(scored, body) == (scored = <<>> \/ AllZero(scored)) /\ HasField(body)

\* lines 558-562: the strict top 10, else the loose top 10
SafetyNetHits(strict, loose) ==
  IF Take(strict, 10) # <<>> THEN Take(strict, 10) ELSE Take(loose, 10)

SafetyNetMutNoBrute(scored, body, profs, scores, strict, loose, maxBruteForce) ==
  IF ~NeedsSafetyNet(scored, body) THEN scored
  ELSE IF SafetyNetHits(strict, loose) # <<>>
       THEN FuseScored(SafetyNetHits(strict, loose), profs)
  ELSE scored

\* lines 555-589
SafetyNet(scored, body, profs, scores, strict, loose, maxBruteForce) ==
  IF ~NeedsSafetyNet(scored, body) THEN scored
  ELSE IF SafetyNetHits(strict, loose) # <<>>
       THEN FuseScored(SafetyNetHits(strict, loose), profs)
  ELSE BruteForce(profs, scores, maxBruteForce)

(***************************************************************************)
(* The names dataset fallback                                              *)
(***************************************************************************)
\* let namesFallback = null
NamesNull == [loaded |-> FALSE, rows |-> <<>>]

\* r.website || r.domain || r.url || ''
RowWebsite(r) ==
  IF Truthy(r.website) THEN r.website
  ELSE IF Truthy(r.domain) THEN r.domain ELSE OrEmpty(r.url)

\* r.name || r.company_name || ''
RowName(r) == IF Truthy(r.name) THEN r.name ELSE OrEmpty(r.company_name)

NamesRow(r) == [website |-> RowWebsite(r), name |-> RowName(r)]

HasWebsite(r) == r.website # <<>>

getNamesFallbackMutNoStore(namesFallback, csv) ==
  IF csv.ok
  THEN [loaded |-> FALSE,
        rows   |-> SelectSeq([i \in 1..Len(csv.rows) |-> NamesRow(csv.rows[i])],
                             HasWebsite)]
  ELSE [loaded |-> FALSE, rows |-> <<>>]

\* getNamesFallback: the cache after the call; csv is what readCsv does when
\* it is called (ok = FALSE is a rejection, which the catch turns into []).
\* An empty array is truthy, so a loaded cache is returned whatever it holds.
getNamesFallback(namesFallback, csv) ==
  IF namesFallback.loaded THEN namesFallback
  ELSE IF csv.ok
       THEN [loaded |-> TRUE,
             rows   |-> SelectSeq([i \in 1..Len(csv.rows) |-> NamesRow(csv.rows[i])],
                                  HasWebsite)]
  ELSE [loaded |-> TRUE, rows |-> <<>>]

NamesStubsMutHalf(nf, names) ==
  [k \in 1..Len(nf) |->
     Scored(k - 1,
            CompanyProfile(names[nf[k].refIndex + 1].website,
                           names[nf[k].refIndex + 1].name, <<>>, <<>>),
            Rescale(nf[k].score, 5))]

\* line 623: nf.map((r, idx) => ({ idx, profile: {...}, score: ... }))
NamesStubs(nf, names) ==
  [k \in 1..Len(nf) |->
     Scored(k - 1,
            CompanyProfile(names[nf[k].refIndex + 1].website,
                           names[nf[k].refIndex + 1].name, <<>>, <<>>),
            Rescale(nf[k].score, 4))]

(***************************************************************************)
(* Filter, sort, pagination (lines 591-642)                                *)
(***************************************************************************)
\* Math.max(1, Number(body.page ?? 1) || 1), in halves
PageOf(body) == Max(2, NumberOr(body.page, 2))

\* Math.min(50, Math.max(5, Number(body.perPage ?? 10) || 10)), in halves
PerPageOf(body) == Min(100, Max(10, NumberOr(body.perPage, 20)))

SortKeyOf(body) == IF body.sort = "undefined" THEN "score" ELSE body.sort

DirOf(body) == IF body.dir = "undefined" THEN "desc" ELSE body.dir

\* Number(body.minScore ?? '') || 0
MinScoreOf(body) == NumberOr(body.minScore, 0)

\* (body.contains || '').toString().toLowerCase().trim()
ContainsOf(body) == trim(toLowerCase(OrEmpty(body.contains)))

PassesFilter(sc, minScore, contains) ==
  /\ minScore > 0 => sc.score >= minScore
  /\ contains # <<>> =>
       \/ includes(toLowerCase(OrEmpty(sc.profile.name)), contains)
       \/ includes(toLowerCase(OrEmpty(sc.profile.website)), contains)

RECURSIVE FilterList(_, _, _)
FilterList(list, minScore, contains) ==
  IF list = <<>> THEN <<>>
  ELSE (IF PassesFilter(Head(list), minScore, contains) THEN <<Head(list)>> ELSE <<>>)
       \o FilterList(Tail(list), minScore, contains)

\* lines 599-613: filter, then sort
FilterSort(scored, body) ==
  StableSort(FilterList(scored, MinScoreOf(body), ContainsOf(body)),
             SortKeyOf(body), DirOf(body))

\* lines 599-626: the list the response is cut from; names is the names
\* dataset and namesHits what the Fuse index over it answers
FinalList(scored, body, names, namesHits) ==
  LET list == FilterSort(scored, body)
      nf   == Take(namesHits, 10)
  IN  IF scored = <<>> /\ names # <<>> /\ nf # <<>> THEN NamesStubs(nf, names) ELSE list

CeilDiv(a, b) == (a + b - 1) \div b

\* Math.max(1, Math.ceil(total / perPage)), perPage in halves
TotalPages(total, perPage) == Max(1, CeilDiv(2 * total, perPage))

SliceMutCeil(list, start4, end4) ==
  LET from == start4 \div 4
      to   == Min((end4 + 3) \div 4, Len(list))
  IN  IF from >= to THEN <<>> ELSE SubSeq(list, from + 1, to)

\* list.slice(start, end) for 0 <= start: both ends are truncated to integers;
\* start and end are given in quarters
Slice(list, start4, end4) ==
  LET from == start4 \div 4
      to   == Min(end4 \div 4, Len(list))
  IN  IF from >= to THEN <<>> ELSE SubSeq(list, from + 1, to)

\* paged = list.slice(start, start + perPage), start = (pageClamped - 1) * perPage
Paged(list, pageClamped, perPage) ==
  Slice(list, (pageClamped - 2) * perPage, (pageClamped - 2) * perPage + 2 * perPage)

Null == CompanyProfile(<<"null">>, <<"null">>, <<>>, <<>>)

\* list[0]?.profile || null
BestOf(list) == IF list = <<>> THEN Null ELSE list[1].profile

NoMeta ==
  [total |-> 0, totalPages |-> 0, page |-> 0, perPage |-> 0, sort |-> "undefined",
   dir |-> "undefined", minScore |-> 0, contains |-> <<>>]

\* a reply without a result.  Besides what is sent, a reply records the list
\* that was scored first (line 552), the scored list after the safety net, the
\* unpaginated list and the engine steps that were performed
ErrorReply(status) ==
  [status |-> status, best |-> Null, candidates |-> <<>>, meta |-> NoMeta,
   scored |-> <<>>, list |-> <<>>, ran |-> {}, first |-> <<>>]

RespondMutBestOfPage(list, scored, body, ran) ==
  LET perPage     == PerPageOf(body)
      total       == Len(list)
      totalPages  == TotalPages(total, perPage)
      pageClamped == Min(PageOf(body), 2 * totalPages)
  IN  [ status     |-> 200,
        best       |-> BestOf(Paged(list, pageClamped, perPage)),
        candidates |-> Paged(list, pageClamped, perPage),
        meta       |-> [total |-> total, totalPages |-> totalPages, page |-> pageClamped,
                        perPage |-> perPage, sort |-> SortKeyOf(body), dir |-> DirOf(body),
                        minScore |-> MinScoreOf(body), contains |-> ContainsOf(body)],
        scored     |-> scored,
        list       |-> list,
        ran        |-> ran ]

\* lines 627-642
Respond(list, scored, body, ran) ==
  LET perPage     == PerPageOf(body)
      total       == Len(list)
      totalPages  == TotalPages(total, perPage)
      pageClamped == Min(PageOf(body), 2 * totalPages)
  IN  [ status     |-> 200,
        best       |-> BestOf(list),
        candidates |-> Paged(list, pageClamped, perPage),
        meta       |-> [total |-> total, totalPages |-> totalPages, page |-> pageClamped,
                        perPage |-> perPage, sort |-> SortKeyOf(body), dir |-> DirOf(body),
                        minScore |-> MinScoreOf(body), contains |-> ContainsOf(body)],
        scored     |-> scored,
        list       |-> list,
        ran        |-> ran ]

(***************************************************************************)
(* What the search libraries and readCsv answer                            *)
(***************************************************************************)
Ascending(n) == [i \in 1..n |-> i - 1]

Descending(n) == [i \in 1..n |-> n - i]

\* answers of miniSearch.search over a catalog of n records
MiniFamily(n) ==
  { [full |-> <<>>, tok |-> <<>>],
    [full |-> Ascending(n), tok |-> <<>>],
    [full |-> Descending(n), tok |-> Descending(n)],
    [full |-> <<>>, tok |-> Descending(n)] }

Hit(refIndex, score) == [refIndex |-> refIndex, score |-> score]

\* answers of a Fuse index over n items: no hit, every item with scores from
\* lo upwards, or two hits with the same score, the later item first
FuseFamily(n, lo, hi) ==
  {<<>>, [i \in 1..n |-> Hit(n - i, Min(hi, lo + 20 * (i \div 2)))]}
  \cup (IF n >= 2 THEN {<<Hit(1, hi), Hit(0, hi)>>} ELSE {})

Csv_domain == <<"a","c","m","e",".","c","o","m">>

Csv_name == <<"A","c","m","e">>

Csv_domain2 == <<"c","o","n","t","o","s","o",".","c","o","m">>

Csv_name2 == <<"C","o","n","t","o","s","o">>

\* the rows of the largest names dataset
MaxNames == 12

CsvRow(domain, name) ==
  [website |-> Absent, domain |-> domain, url |-> Absent, name |-> Absent,
   company_name |-> name]

\* What readCsv does with the names dataset.  'error' is listened for on the
\* parser only (.pipe(parse(...)).on('error', reject)): a parse error rejects
\* the promise; an error of the file stream itself (the file is missing or
\* cannot be read) has no listener, so it is thrown as an uncaught exception
\* and the promise is never settled.
CsvOutcomes ==
  { [ok |-> FALSE, unhandled |-> FALSE, rows |-> <<>>],
    [ok |-> FALSE, unhandled |-> TRUE, rows |-> <<>>],
    [ok |-> TRUE, unhandled |-> FALSE, rows |-> <<>>],
    [ok |-> TRUE, unhandled |-> FALSE,
     rows |-> <<CsvRow(Csv_domain2, Csv_name2), CsvRow(Absent, Csv_name2),
                CsvRow(Csv_domain, Csv_name)>>],
    [ok |-> TRUE, unhandled |-> FALSE,
     rows |-> [i \in 1..MaxNames |-> CsvRow(<<"n", LowerSeq[i]>> \o <<".","c","o","m">>,
                                            Csv_name)]] }

NoCsv == [ok |-> FALSE, unhandled |-> FALSE, rows |-> <<>>]

\* no library is consulted
NoLib ==
  [mini |-> [full |-> <<>>, tok |-> <<>>], strict |-> <<>>, loose |-> <<>>,
   csv |-> NoCsv, namesHits |-> <<>>]

(***************************************************************************)
(* POST /match (lines 447-643).  The handler is a function of the request, *)
(* the loaded index, the two caps, the names cache and of what the         *)
(* libraries answer; MatchHandler is the set of its runs over the answers. *)
(* An answer that is not consulted is recorded as empty.                   *)
(***************************************************************************)
EmptyQueryMutAbsent(body) ==
  body.name = Absent /\ body.website = Absent /\ body.phone = Absent
  /\ body.facebook = Absent

\* !body.name && !body.website && !body.phone && !body.facebook
EmptyQuery(body) == ~HasField(body)

\* lines 458-465: the CSRF check of form posts
CsrfRejected(raw, body) ==
  raw.isForm /\ (raw.cookieToken = "undefined" \/ body.csrf = "undefined"
                 \/ body.csrf # raw.cookieToken)

\* one run: what the libraries answered, the reply, the names cache after it
Run(l, reply, cache) == [lib |-> l, reply |-> reply, cache |-> cache]

\* the process dies on an uncaught exception: no reply is sent
Crash(first, ran) == [ErrorReply(0) EXCEPT !.ran = ran, !.first = first]

\* lines 591-642, with the names fallback of lines 615-626
Finish(body, first, scored, l, ran, cache) ==
  IF scored # <<>>
  THEN { Run(l, Respond(FinalList(scored, body, <<>>, <<>>), scored, body, ran)
                @@ [first |-> first],
             cache) }
  ELSE UNION {
         LET cache2 == getNamesFallback(cache, csv)
             names  == cache2.rows
             ran2   == ran \cup {"names"} \cup (IF cache.loaded THEN {} ELSE {"readCsv"})
         IN  IF csv.unhandled
             THEN { Run([l EXCEPT !.csv = csv], Crash(first, ran2), cache) }
             ELSE { Run([l EXCEPT !.csv = csv, !.namesHits = nh],
                        Respond(FinalList(scored, body, names, nh), scored, body, ran2)
                        @@ [first |-> first],
                        cache2)
                    : nh \in IF names # <<>> THEN FuseFamily(Len(names), 100, 600)
                             ELSE {<<>>} }
         : csv \in IF cache.loaded THEN {NoCsv} ELSE CsvOutcomes }

\* lines 508-589 for one answer of the text index
Gather(body, profs, sig, scores, mini, maxCandidates, maxBruteForce, cache) ==
  LET n      == Len(profs)
      union  == SignalUnion(body, sig, mini)
      asks   == \/ union = <<>> /\ HasField(body)
                \/ NeedsSafetyNet(ScoreAll(Prune(union, maxCandidates), profs, scores), body)
  IN  UNION {
        LET cands == Prune(StrictFallback(union, body, strict), maxCandidates)
            first == ScoreAll(cands, profs, scores)
            net   == NeedsSafetyNet(first, body)
        IN  UNION {
              LET scored == SafetyNet(first, body, profs, scores, strict, loose,
                                      maxBruteForce)
                  ran    == {"candidates", "score"}
                            \cup (IF asks THEN {"fuzzy"} ELSE {})
                            \cup (IF StrictFallbackRuns(union, body) THEN {"strict20"}
                                  ELSE {})
                            \cup (IF net THEN {"safetynet"} ELSE {})
                            \cup (IF net /\ Take(strict, 10) = <<>> THEN {"loose"}
                                  ELSE {})
                            \cup (IF net /\ SafetyNetHits(strict, loose) = <<>>
                                  THEN {"brute"} ELSE {})
              IN  Finish(body, first, scored,
                         [NoLib EXCEPT !.mini = mini, !.strict = strict, !.loose = loose],
                         ran, cache)
              : loose \in IF net /\ Take(strict, 10) = <<>> THEN FuseFamily(n, 320, 600)
                          ELSE {<<>>} }
        : strict \in IF asks THEN FuseFamily(n, 0, 300) ELSE {<<>>} }

\* lines 467-643: a request that passed the checks
Engine(body, profs, maps, maxCandidates, maxBruteForce, cache) ==
  LET pre    == PreFeatures(body)
      sig    == Signals(body, maps)
      scores == FastScores(pre, profs, <<>>)
      minis  == { m \in MiniFamily(Len(profs)) :
                    /\ UsesMiniFull(body) \/ m.full = <<>>
                    /\ UsesMiniTok(sig) \/ m.tok = <<>> }
  IN  UNION { Gather(body, profs, sig, scores, mini, maxCandidates, maxBruteForce, cache)
              : mini \in minis }

MatchHandler(raw, profs, maps, maxCandidates, maxBruteForce, cache) ==
  LET parsed == QuerySchema(raw)
      body   == parsed.data
  IN  IF ~parsed.success THEN {Run(NoLib, ErrorReply(400), cache)}
      ELSE IF EmptyQuery(body) THEN {Run(NoLib, ErrorReply(400), cache)}
      ELSE IF CsrfRejected(raw, body) THEN {Run(NoLib, ErrorReply(403), cache)}
      ELSE Engine(body, profs, maps, maxCandidates, maxBruteForce, cache)

(***************************************************************************)
(* The requests that are posted                                            *)
(***************************************************************************)
Q_name_long == <<"A","C","M","E"," ","I","N","C","O","R","P","O","R","A","T","E","D">>

Q_name_exact == <<" ","a","c","m","e"," ","i","n","c">>

Q_blank == <<" "," ">>

Q_site_typo ==
  <<"h","t","t","p","s","/","/","W","W","W",".","a","c","m","e",".","c","o","m","/">>

Q_site_other == <<"a","c","m","e",".","i","o">>

Q_site_bad == <<"h","t","t","p","s",":","/","/">>

Q_phone_fmt == <<"+","1"," ","(","4","1","5",")"," ","5","5","5","-","1","2","1","2">>

Q_phone_local == <<"4","1","5","5","5","5","1","2","1","2">>

Q_phone_short == <<"5","5","5","-","1","2","1","2">>

Q_fb_mobile ==
  <<"h","t","t","p","s",":","/","/","m",".","f","a","c","e","b","o","o","k",".","c","o","m","/",
    "a","c","m","e","/","?","r","e","f","=","x">>

Q_fb_bare == <<"f","b",".","c","o","m","/","a","c","m","e">>

Q_contains == <<" ","A","C","M","E"," ">>

Q_contains_none == <<"z","z","z">>

NoFields == [name |-> Absent, website |-> Absent, phone |-> Absent, facebook |-> Absent]

NameValues == {Q_blank, Q_name_exact, Q_name_long}

WebsiteValues == {<<>>, W_acme, Q_site_typo, Q_site_other, Q_site_bad}

PhoneValues == {Q_phone_fmt, Q_phone_local, Q_phone_short, Ph_contoso}

FacebookValues == {Fb_acme, Q_fb_mobile, Q_fb_bare}

\* the identifying fields of a request: none, one, or one of a few combinations
QueryFields ==
  {NoFields}
  \cup { [NoFields EXCEPT !.name = v] : v \in NameValues }
  \cup { [NoFields EXCEPT !.website = v] : v \in WebsiteValues }
  \cup { [NoFields EXCEPT !.phone = v] : v \in PhoneValues }
  \cup { [NoFields EXCEPT !.facebook = v] : v \in FacebookValues }
  \cup { [name |-> Q_blank, website |-> <<>>, phone |-> <<" ">>, facebook |-> Q_blank],
         [name |-> Q_blank, website |-> Absent, phone |-> Q_phone_fmt, facebook |-> Absent],
         [name |-> Q_name_long, website |-> Q_site_other, phone |-> Absent,
          facebook |-> Absent],
         [name |-> Q_name_exact, website |-> W_acme, phone |-> Q_phone_local,
          facebook |-> Fb_acme] }

\* the query whose list is filtered, sorted and paged in many ways
ListQuery == [NoFields EXCEPT !.name = Q_name_long]

DefaultParams ==
  [page |-> NoNum, perPage |-> NoNum, sort |-> "undefined", dir |-> "undefined",
   minScore |-> NoNum, contains |-> Absent]

SortParams ==
  { [DefaultParams EXCEPT !.sort = k, !.dir = d] :
      k \in {"score", "name", "website"}, d \in {"undefined", "asc", "desc"} }
  \cup { [DefaultParams EXCEPT !.sort = "relevance"], [DefaultParams EXCEPT !.dir = "up"] }

FilterParams ==
  { [DefaultParams EXCEPT !.minScore = m, !.contains = c] :
      m \in {NaNInput, Num(-1000), Num(450), Num(1200), Num(3000)},
      c \in {Absent, Q_contains, Q_contains_none} }

\* page and perPage inputs in halves: missing, non-numeric, zero, negative,
\* fractional, in range, huge
PageParams ==
  { [DefaultParams EXCEPT !.page = pg, !.perPage = pp] :
      pg \in {NoNum, NaNInput, Num(0), Num(-4), Num(3), Num(4), Num(6), Num(2000)},
      pp \in {NoNum, NaNInput, Num(0), Num(-4), Num(10), Num(11), Num(2000)} }

JsonPost == [isForm |-> FALSE, cookieToken |-> "undefined", csrf |-> "undefined"]

FormPosts ==
  { [isForm |-> TRUE, cookieToken |-> "tokA", csrf |-> "tokA"],
    [isForm |-> TRUE, cookieToken |-> "tokB", csrf |-> "tokA"],
    [isForm |-> TRUE, cookieToken |-> "undefined", csrf |-> "tokA"],
    [isForm |-> TRUE, cookieToken |-> "tokA", csrf |-> "undefined"] }

Request(q, ps, post) ==
  [ name |-> q.name, website |-> q.website, phone |-> q.phone, facebook |-> q.facebook,
    page |-> ps.page, perPage |-> ps.perPage, sort |-> ps.sort, dir |-> ps.dir,
    minScore |-> ps.minScore, contains |-> ps.contains,
    isForm |-> post.isForm, cookieToken |-> post.cookieToken, csrf |-> post.csrf ]

Requests ==
  { Request(q, DefaultParams, JsonPost) : q \in QueryFields }
  \cup { Request(q, DefaultParams, post) : q \in {ListQuery, NoFields}, post \in FormPosts }
  \cup { Request(ListQuery, ps, JsonPost) : ps \in SortParams \cup FilterParams \cup PageParams }

NoRequest == Request(NoFields, DefaultParams, JsonPost)

(***************************************************************************)
(* The server: state, load and the handling of requests                    *)
(***************************************************************************)
VARIABLES
  profiles,         \* the augmented catalog, fixed at load
  maps,             \* the four lookup maps, fixed at load
  MAX_CANDIDATES,   \* Number(process.env.MAX_CANDIDATES || 2000)
  MAX_BRUTE_FORCE,  \* Number(process.env.MAX_BRUTE_FORCE || 5000)
  namesFallback,    \* the cache of the names dataset
  pc,               \* "idle", or "done" when a request has been answered
  req,              \* the request that was answered last
  lib,              \* what the search libraries and readCsv answered to it
  resp,             \* the reply to it
  arg,              \* the input of a helper function that is applied on its own
  out,              \* its results so far, the latest last
  RATE_MAX,         \* Number(process.env.RATE_LIMIT_MAX || 120)
  RATE_WIN,         \* Number(process.env.RATE_LIMIT_WINDOW_MS || 60_000)
  buckets,          \* the rate limiter's Map from ip to { n, reset }
  now,              \* Date.now()
  log,              \* the requests that arrived: ip, url, time, status
  det,              \* a request body that is followed, and the first reply to it
  load              \* the calls of getNamesFallback that run concurrently

serverVars ==
  <<profiles, maps, MAX_CANDIDATES, MAX_BRUTE_FORCE, namesFallback, pc, req, lib, resp>>

pureVars == <<arg, out>>

rateVars == <<RATE_MAX, RATE_WIN, buckets, now, log>>

vars == <<serverVars, pureVars, rateVars, det, load>>

\* how many requests call getNamesFallback concurrently
MaxConcurrent == 3

Callers == 1..MaxConcurrent

\* no call of getNamesFallback has started; reads counts the calls of readCsv
NoLoad == [at |-> [c \in Callers |-> "start"], got |-> [c \in Callers |-> <<>>],
           reads |-> 0]

\* no request body is followed
NoDet == [probe |-> NoRequest, count |-> 0, seen |-> ErrorReply(0), lib |-> NoLib,
          rows |-> <<>>]

DefaultRateMax == 120

DefaultRateWin == 60000

\* the rate limiter as buildApp creates it, no request having arrived
RateIdle ==
  /\ RATE_MAX = DefaultRateMax /\ RATE_WIN = DefaultRateWin
  /\ buckets = <<>> /\ now = 0 /\ log = <<>>

\* no helper function is applied on its own
NoArg == [fn |-> "none"]

DefaultMaxCandidates == 2000

DefaultMaxBruteForce == 5000

\* the two caps as the environment sets them: unset, or a small number
Caps ==
  { [candidates |-> DefaultMaxCandidates, bruteForce |-> DefaultMaxBruteForce],
    [candidates |-> 1, bruteForce |-> DefaultMaxBruteForce],
    [candidates |-> 0, bruteForce |-> DefaultMaxBruteForce],
    [candidates |-> DefaultMaxCandidates, bruteForce |-> 2],
    [candidates |-> DefaultMaxCandidates, bruteForce |-> 0] }

\* buildApp: the index is loaded and the caps are read
Init ==
  /\ profiles \in { AugProfiles(c) : c \in Catalogs }
  /\ maps = LookupMaps(profiles)
  /\ \E caps \in Caps :
       /\ MAX_CANDIDATES = caps.candidates
       /\ MAX_BRUTE_FORCE = caps.bruteForce
  /\ namesFallback = NamesNull
  /\ pc = "idle"
  /\ req = NoRequest
  /\ lib = NoLib
  /\ resp = ErrorReply(0)
  /\ arg = NoArg /\ out = <<>>
  /\ RateIdle
  /\ det = NoDet
  /\ load = NoLoad

MatchMutReordersCatalog ==
  /\ pc = "idle"
  /\ \E raw \in Requests :
       \E run \in MatchHandler(raw, profiles, maps, MAX_CANDIDATES, MAX_BRUTE_FORCE,
                               namesFallback) :
         /\ req' = raw
         /\ lib' = run.lib
         /\ resp' = run.reply
         /\ namesFallback' = run.cache
         /\ pc' = IF run.reply.status = 0 THEN "crashed" ELSE "done"
         /\ profiles' = IF "brute" \in run.reply.ran
                         THEN [k \in 1..Len(profiles) |-> profiles[Len(profiles) + 1 - k]]
                         ELSE profiles
  /\ UNCHANGED <<maps, MAX_CANDIDATES, MAX_BRUTE_FORCE, pureVars, rateVars, det, load>>

\* POST /match: one request is handled from its arrival to its reply
Match ==
  /\ pc = "idle"
  /\ \E raw \in Requests :
       \E run \in MatchHandler(raw, profiles, maps, MAX_CANDIDATES, MAX_BRUTE_FORCE,
                               namesFallback) :
         /\ req' = raw
         /\ lib' = run.lib
         /\ resp' = run.reply
         /\ namesFallback' = run.cache
         /\ pc' = IF run.reply.status = 0 THEN "crashed" ELSE "done"
  /\ UNCHANGED <<profiles, maps, MAX_CANDIDATES, MAX_BRUTE_FORCE, pureVars, rateVars, det, load>>

\* the reply has been sent; the server waits for the next request
Reply ==
  /\ pc = "done"
  /\ pc' = "idle"
  /\ req' = NoRequest
  /\ lib' = NoLib
  /\ resp' = ErrorReply(0)
  /\ UNCHANGED <<profiles, maps, MAX_CANDIDATES, MAX_BRUTE_FORCE, namesFallback, pureVars,
               rateVars, det, load>>

Next == Match \/ Reply

Spec == Init /\ [][Next]_vars

(***************************************************************************)
(* The helper functions applied on their own to bounded inputs             *)
(***************************************************************************)
\* how a website is written: its scheme part, with the typos that occur
SchemeParts ==
  { <<>>, SchemeHttps, SchemeHttp,
    <<"h","t","t","p","s","/","/">>, <<"h","t","t","p","/","/">>,
    SchemeHttps \o <<"h","t","t","p","s","/","/">>, SchemeHttps \o SchemeHttps,
    <<"H","T","T","P","S",":","/","/">> }

WwwParts == { <<>>, <<"w","w","w",".">>, <<"w","w","w",".","w","w","w",".">> }

HostParts ==
  { Csv_domain, <<"a","c","o","r","n","l","a","w","p","c",".","c","o","m">>,
    FacebookCom, <<"f","b",".","c","o","m">>, <<"m",".">> \o FacebookCom }

PathParts ==
  { <<>>, <<"/">>, <<"/","a">>, <<"/","a","/">>, <<"/","a","/","/">>,
    <<"/","a","c","m","e","/","?","r","e","f","=","x">> }

UrlArgs(fn) ==
  { [fn |-> fn, scheme |-> sc, rest |-> w \o h \o p, host |-> w \o h, path |-> p]
    : sc \in SchemeParts, w \in WwwParts, h \in HostParts, p \in PathParts }

NameParts ==
  { N_tools, <<"a","c","m","e"," ","t","o","o","l","s",".">>,
    <<"A","C","M","E","-","T","O","O","L","S">>, <<" ","a","c","m","e"," ","t","o","o","l","s"," ">>,
    <<"A","c","m","e"," ","T","o","o","l">>, N_acme, N_contoso, Csv_name }

NameArgs == { [fn |-> "fastScore", name |-> q, candidate |-> c] : q, c \in NameParts }

\* the largest catalog size and cap the brute-force sampling is applied to
MaxSample == 12

BruteArgs ==
  { [fn |-> "bruteSubset", N |-> n, cap |-> c] : n \in 0..MaxSample, c \in 0..MaxSample }

\* phone numbers as they are written in a catalog and in a request: full
\* numbers, local numbers of seven digits, a short code, one without digits
PhoneParts ==
  { Ph_acme, Q_phone_fmt, Q_phone_local, Q_phone_short,
    <<"5","5","5","1","2","1","2">>, <<"5","5","5"," ","1","2","1","2"," ">>,
    <<"9","1","1">>, <<"n","/","a">> }

PhoneArgs == { [fn |-> "phoneSignal", phone |-> q, candidate |-> c] : q, c \in PhoneParts }

\* the records the two scorers are compared on: the fixture, a record with
\* a blank name and no website, one with a short phone, one with a name only
ScoreRecords ==
  { P_acme, P_contoso, P_tools,
    CompanyProfile(Absent, Q_blank, <<>>, <<>>),
    CompanyProfile(Q_site_other, Absent, <<<<"9","1","1">>>>, <<Q_fb_bare>>),
    CompanyProfile(<<>>, Q_name_long, <<<<"n","/","a">>, Ph_acme>>, <<>>) }

\* the requests they are compared on: the fields of the posted requests and
\* four more with a blank or one-word name, a site without host, a short phone
ScoreQueries ==
  QueryFields
  \cup { [NoFields EXCEPT !.name = Q_blank, !.phone = <<"9","1","1">>],
         [NoFields EXCEPT !.name = <<"a","c","m","e">>, !.website = Q_site_bad],
         [NoFields EXCEPT !.name = Q_name_long, !.website = Q_site_other,
                          !.phone = Q_phone_fmt, !.facebook = Q_fb_bare],
         [NoFields EXCEPT !.name = N_tools, !.website = W_tools, !.facebook = Fb_acme] }

ScoreArgs ==
  { [fn |-> "scoreMatch", query |-> q, candidate |-> c] : q \in ScoreQueries, c \in ScoreRecords }

\* the string the function is applied to next: the input, then its own result
NextInput == IF out = <<>> THEN arg.scheme \o arg.rest ELSE out[Len(out)]

\* how often a canonicalizer is applied to its own result
MaxApply == 2

PureInit ==
  /\ profiles = <<>>
  /\ maps = LookupMaps(profiles)
  /\ MAX_CANDIDATES = DefaultMaxCandidates
  /\ MAX_BRUTE_FORCE = DefaultMaxBruteForce
  /\ namesFallback = NamesNull
  /\ pc = "idle"
  /\ req = NoRequest
  /\ lib = NoLib
  /\ resp = ErrorReply(0)
  /\ arg \in UrlArgs("canonicalUrl") \cup UrlArgs("canonicalFacebook") \cup NameArgs
             \cup BruteArgs \cup PhoneArgs \cup ScoreArgs
  /\ out = <<>>
  /\ RateIdle
  /\ det = NoDet
  /\ load = NoLoad

ApplyCanonicalUrl ==
  /\ arg.fn = "canonicalUrl" /\ Len(out) < MaxApply
  /\ out' = Append(out, canonicalUrl(NextInput))
  /\ UNCHANGED <<serverVars, arg, rateVars, det, load>>

ApplyCanonicalFacebook ==
  /\ arg.fn = "canonicalFacebook" /\ Len(out) < MaxApply
  /\ out' = Append(out, canonicalFacebook(NextInput))
  /\ UNCHANGED <<serverVars, arg, rateVars, det, load>>

\* the name signal of fastScore: the request has a name only, the candidate
\* a name only
ApplyFastScore ==
  /\ arg.fn = "fastScore" /\ out = <<>>
  /\ out' = <<fastScore(PreFeatures([NoFields EXCEPT !.name = limitStr(arg.name)]),
                        AugProfile(CompanyProfile(Absent, arg.candidate, <<>>, <<>>), 0))>>
  /\ UNCHANGED <<serverVars, arg, rateVars, det, load>>

\* lines 573-579: the positions the brute force scores
ApplyBruteSubset ==
  /\ arg.fn = "bruteSubset" /\ out = <<>>
  /\ out' = <<BruteSubset(arg.N, arg.cap)>>
  /\ UNCHANGED <<serverVars, arg, rateVars, det, load>>

\* the phone signal of one request against a catalog of one record: the
\* key loadIndexFrom stores (lines 161-166), the lookup of lines 492-496 and
\* the score of fastScore
PhoneSignal(phone, candidate) ==
  [ ids   |-> Signals([NoFields EXCEPT !.phone = limitStr(phone)],
                      LookupMaps(AugProfiles(<<CompanyProfile(W_acme, Absent, <<candidate>>,
                                                              <<>>)>>))).phoneIds,
    score |-> fastScore(PreFeatures([NoFields EXCEPT !.phone = limitStr(phone)]),
                        AugProfile(CompanyProfile(W_acme, Absent, <<candidate>>, <<>>), 0)) ]

ApplyPhoneSignal ==
  /\ arg.fn = "phoneSignal" /\ out = <<>>
  /\ out' = <<PhoneSignal(arg.phone, arg.candidate)>>
  /\ UNCHANGED <<serverVars, arg, rateVars, det, load>>

\* the fields of a request after QuerySchema (every string trimmed)
ParsedFields(q) ==
  [ name |-> limitStr(q.name), website |-> limitStr(q.website),
    phone |-> limitStr(q.phone), facebook |-> limitStr(q.facebook) ]

\* both scorers on one request and one augmented record
ApplyScoreMatch ==
  /\ arg.fn = "scoreMatch" /\ out = <<>>
  /\ out' = <<[ exported |-> scoreMatch(InputForScore(ParsedFields(arg.query)),
                                        AugProfile(arg.candidate, 0)),
                fast     |-> fastScore(PreFeatures(ParsedFields(arg.query)),
                                       AugProfile(arg.candidate, 0)) ]>>
  /\ UNCHANGED <<serverVars, arg, rateVars, det, load>>

PureNext ==
  \/ ApplyCanonicalUrl \/ ApplyCanonicalFacebook \/ ApplyFastScore \/ ApplyBruteSubset
  \/ ApplyPhoneSignal \/ ApplyScoreMatch

PureSpec == PureInit /\ [][PureNext]_vars

(***************************************************************************)
(* The onRequest rate limiter (lines 346-360)                              *)
(***************************************************************************)
Ips == {"10.0.0.1", "10.0.0.2"}

\* req.url is the raw URL of the request, its query string included
Urls == {"/match", "/health", "/health?probe=1"}

\* the route Fastify dispatches the URL to: the path without the query string
RouteOf(url) == IF url = "/health?probe=1" THEN "/health" ELSE url

\* RATE_LIMIT_MAX and RATE_LIMIT_WINDOW_MS as the environment sets them
RateEnvs == { [max |-> 1, win |-> 1], [max |-> 2, win |-> 2] }

\* how many requests arrive
MaxRequests == 4

\* how far the clock runs, in milliseconds
MaxClock == 4

RateInit ==
  /\ profiles = <<>>
  /\ maps = LookupMaps(profiles)
  /\ MAX_CANDIDATES = DefaultMaxCandidates
  /\ MAX_BRUTE_FORCE = DefaultMaxBruteForce
  /\ namesFallback = NamesNull
  /\ pc = "idle"
  /\ req = NoRequest
  /\ lib = NoLib
  /\ resp = ErrorReply(0)
  /\ arg = NoArg /\ out = <<>>
  /\ \E env \in RateEnvs : RATE_MAX = env.max /\ RATE_WIN = env.win
  /\ buckets = <<>> /\ now = 0 /\ log = <<>>
  /\ det = NoDet
  /\ load = NoLoad

\* lines 354-355: the bucket of the ip, a fresh one when there is none or the
\* window is over
BucketOf(ip) ==
  IF ip \notin DOMAIN buckets \/ now > buckets[ip].reset
  THEN [n |-> 0, reset |-> now + RATE_WIN]
  ELSE buckets[ip]

Arrival(ip, url, status) == [ip |-> ip, url |-> url, t |-> now, status |-> status]

\* a request arrives: the hook, then the route unless the hook has replied
onRequest ==
  /\ Len(log) < MaxRequests
  /\ \E ip \in Ips, url \in Urls :
       IF url = "/health"
       THEN /\ log' = Append(log, Arrival(ip, url, 200))
            /\ UNCHANGED buckets
       ELSE /\ buckets' = (ip :> [BucketOf(ip) EXCEPT !.n = @ + 1]) @@ buckets
            /\ log' = Append(log, Arrival(ip, url,
                                          IF BucketOf(ip).n + 1 > RATE_MAX THEN 429
                                          ELSE 200))
  /\ UNCHANGED <<serverVars, pureVars, RATE_MAX, RATE_WIN, now, det, load>>

\* time passes
Tick ==
  /\ now < MaxClock
  /\ now' = now + 1
  /\ UNCHANGED <<serverVars, pureVars, RATE_MAX, RATE_WIN, buckets, log, det, load>>

RateNext == onRequest \/ Tick

RateSpec == RateInit /\ [][RateNext]_vars

(***************************************************************************)
(* Repeated requests: one body is followed through a sequence of requests. *)
(* MiniSearch and Fuse are deterministic: to the same query over the same  *)
(* index they give the same answer, whatever was asked before.  What       *)
(* readCsv reads is free at every read.                                    *)
(***************************************************************************)
DetCatalogSizes == {0, 3}

DetCaps == { c \in Caps : c.candidates # 0 /\ c.bruteForce # 2 }

DetQueries ==
  { [NoFields EXCEPT !.name = Q_name_long], [NoFields EXCEPT !.website = Q_site_bad],
    [NoFields EXCEPT !.website = Q_site_typo], [NoFields EXCEPT !.phone = Q_phone_short] }

DetRequests ==
  { Request(q, DefaultParams, JsonPost) : q \in DetQueries }
  \cup { Request(ListQuery, DefaultParams, post) : post \in FormPosts }
  \cup { Request(ListQuery, [DefaultParams EXCEPT !.sort = "name"], JsonPost) }

\* the parsed bodies are equal; the headers may differ
SameBody(r1, r2) ==
  [r1 EXCEPT !.isForm = FALSE, !.cookieToken = "undefined"]
    = [r2 EXCEPT !.isForm = FALSE, !.cookieToken = "undefined"]

\* the names index was searched in this run
NamesSearched(ran, rows) == "names" \in ran /\ rows # <<>>

\* the libraries answer this run of the followed body as they answered the
\* first one, wherever both runs asked
SameAnswers(run) ==
  /\ run.lib.mini = det.lib.mini
  /\ "fuzzy" \in run.reply.ran \cap det.seen.ran => run.lib.strict = det.lib.strict
  /\ "loose" \in run.reply.ran \cap det.seen.ran => run.lib.loose = det.lib.loose
  /\ (NamesSearched(run.reply.ran, run.cache.rows) /\ NamesSearched(det.seen.ran, det.rows))
       => run.lib.namesHits = det.lib.namesHits

\* the first reply to the followed body is kept, later ones are counted
Follow(raw, run) ==
  IF ~SameBody(raw, det.probe) \/ run.reply.status # 200 THEN det
  ELSE IF det.count = 0
       THEN [det EXCEPT !.count = 1, !.seen = run.reply, !.lib = run.lib,
                        !.rows = run.cache.rows]
  ELSE [det EXCEPT !.count = 2]

DetInit ==
  /\ profiles \in { AugProfiles([i \in 1..n |-> PoolProfile(i)]) : n \in DetCatalogSizes }
  /\ maps = LookupMaps(profiles)
  /\ \E caps \in DetCaps :
       /\ MAX_CANDIDATES = caps.candidates
       /\ MAX_BRUTE_FORCE = caps.bruteForce
  /\ namesFallback = NamesNull
  /\ pc = "idle"
  /\ req = NoRequest
  /\ lib = NoLib
  /\ resp = ErrorReply(0)
  /\ arg = NoArg /\ out = <<>>
  /\ RateIdle
  /\ \E raw \in DetRequests : det = [NoDet EXCEPT !.probe = raw]
  /\ load = NoLoad

\* POST /match in a sequence of requests
DetMatch ==
  /\ pc = "idle"
  /\ \E raw \in DetRequests :
       \E run \in MatchHandler(raw, profiles, maps, MAX_CANDIDATES, MAX_BRUTE_FORCE,
                               namesFallback) :
         /\ (SameBody(raw, det.probe) /\ det.count > 0 /\ "candidates" \in run.reply.ran)
              => SameAnswers(run)
         /\ req' = raw
         /\ lib' = run.lib
         /\ resp' = run.reply
         /\ namesFallback' = run.cache
         /\ pc' = IF run.reply.status = 0 THEN "crashed" ELSE "done"
         /\ det' = Follow(raw, run)
  /\ UNCHANGED <<profiles, maps, MAX_CANDIDATES, MAX_BRUTE_FORCE, pureVars, rateVars, load>>

DetNext == DetMatch \/ Reply

DetSpec == DetInit /\ [][DetNext]_vars

(***************************************************************************)
(* getNamesFallback (lines 369-380) called by concurrent requests.  The    *)
(* function runs to its await without interruption; while readCsv is       *)
(* pending, other requests run.                                            *)
(***************************************************************************)
LoadInit ==
  /\ profiles = <<>>
  /\ maps = LookupMaps(profiles)
  /\ MAX_CANDIDATES = DefaultMaxCandidates
  /\ MAX_BRUTE_FORCE = DefaultMaxBruteForce
  /\ namesFallback = NamesNull
  /\ pc = "idle"
  /\ req = NoRequest
  /\ lib = NoLib
  /\ resp = ErrorReply(0)
  /\ arg = NoArg /\ out = <<>>
  /\ RateIdle
  /\ det = NoDet
  /\ load = NoLoad

\* line 370, and lines 372-373 up to the await: the cache is returned when
\* it is set, otherwise readCsv is called
CallGetNamesFallback ==
  /\ pc = "idle"
  /\ \E c \in Callers :
       /\ load.at[c] = "start"
       /\ load' = IF namesFallback.loaded
                  THEN [load EXCEPT !.at[c] = "returned", !.got[c] = namesFallback.rows]
                  ELSE [load EXCEPT !.at[c] = "reading", !.reads = @ + 1]
  /\ UNCHANGED <<serverVars, pureVars, rateVars, det>>

\* lines 373-379: readCsv settles, the cache is assigned and returned
ReadCsvSettles ==
  /\ pc = "idle"
  /\ \E c \in Callers, csv \in CsvOutcomes :
       /\ load.at[c] = "reading"
       /\ IF csv.unhandled
          THEN /\ pc' = "crashed"
               /\ load' = [load EXCEPT !.at[c] = "crashed"]
               /\ UNCHANGED namesFallback
          ELSE /\ namesFallback' = getNamesFallback(NamesNull, csv)
               /\ load' = [load EXCEPT !.at[c] = "returned",
                                       !.got[c] = getNamesFallback(NamesNull, csv).rows]
               /\ UNCHANGED pc
  /\ UNCHANGED <<profiles, maps, MAX_CANDIDATES, MAX_BRUTE_FORCE, req, lib, resp, pureVars,
                 rateVars, det>>

LoadNext == CallGetNamesFallback \/ ReadCsvSettles

LoadSpec == LoadInit /\ [][LoadNext]_vars

(***************************************************************************)
(* Properties of the replies                                               *)
(***************************************************************************)
\* the parsed body of the request that was answered
Body == QuerySchema(req).data

\* a request has been answered with a result
Served == pc = "done" /\ resp.status = 200

\* no filter and the default order are requested
DefaultOrder ==
  MinScoreOf(Body) = 0 /\ ContainsOf(Body) = <<>> /\ SortKeyOf(Body) = "score"
  /\ DirOf(Body) = "desc"

\* exactly the field f of the request is present
Only(f) ==
  \A g \in {"name", "website", "phone", "facebook"} : Truthy(Body[g]) <=> g = f

\* the catalog record at position i as the response shows it
Record(i) == RawProfile(profiles[i + 1])

Positions == 0..(Len(profiles) - 1)

BlankAfterTrim(v) == v = Absent \/ trim(v) = <<>>

\* C1: a request whose name, website, phone and facebook are all absent or
\* empty after trimming is answered with status 400, and the engine is not
\* run for it: no step of it is performed and no library is consulted.
C1_EmptyQueryRejected ==
  (pc = "done" /\ \A f \in {"name", "website", "phone", "facebook"} : BlankAfterTrim(req[f]))
    => /\ resp.status = 400
       /\ resp.ran = {}
       /\ resp.scored = <<>>
       /\ lib = NoLib

\* a request with blank, not absent, fields has been rejected
C1_Witness ==
  /\ pc = "done"
  /\ req.name = Q_blank /\ req.website = <<>> /\ req.phone = <<" ">>
  /\ req.facebook = Q_blank
  /\ resp.status = 400

\* C2 as stated: for a non-empty catalog and a request with at least one
\* identifying field, the scored list the cascade produces is not empty.
C2_AnyCap == (Served /\ Len(profiles) >= 1) => resp.scored # <<>>

\* C2, amended: for a non-empty catalog, a brute-force cap of at least 1 and a
\* request with at least one identifying field, the scored list the cascade
\* produces is not empty, and neither are the candidates of the response when
\* no filter is given.
C2_CascadeNonEmpty ==
  (Served /\ Len(profiles) >= 1 /\ MAX_BRUTE_FORCE >= 1)
    => /\ resp.scored # <<>>
       /\ (MinScoreOf(Body) = 0 /\ ContainsOf(Body) = <<>>) => resp.candidates # <<>>

\* neither the signal union nor a fuzzy index found anything and the brute
\* force produced the list
C2_Witness ==
  /\ Served /\ Len(profiles) >= 1 /\ MAX_BRUTE_FORCE >= 1
  /\ lib.strict = <<>> /\ lib.loose = <<>> /\ "brute" \in resp.ran
  /\ resp.scored # <<>> /\ resp.candidates # <<>>

\* the positions whose canonical site is the canonical website of the query
SiteHolders ==
  { i \in Positions : profiles[i + 1]._canonSite = canonicalUrl(Body.website) }

\* C3: for a website-only query (default sort, no filters) whose canonical
\* website is the canonical site of exactly one catalog record, best is that
\* record, whatever the text search adds and whatever MAX_CANDIDATES is.
C3_ExactWebsiteIsBest ==
  (Served /\ Only("website") /\ DefaultOrder /\ Cardinality(SiteHolders) = 1)
    => \A i \in SiteHolders : resp.best = Record(i)

\* the key of a phone number: its last ten digits, all of them when fewer
PhoneKeyOf(s) ==
  LET d == SelectSeq(s, IsDigit) IN SubSeq(d, Max(1, Len(d) - 9), Len(d))

PhoneHolders ==
  { i \in Positions :
      \E j \in 1..Len(profiles[i + 1].phones) :
        PhoneKeyOf(profiles[i + 1].phones[j]) = PhoneKeyOf(Body.phone) }

FacebookHolders ==
  { i \in Positions : canonicalFacebook(Body.facebook) \in profiles[i + 1]._fbHandles }

\* C4 as stated: for a phone-only query whose last-ten-digit key is a phone
\* key of exactly one catalog record, and for a facebook-only query whose
\* canonical handle is a handle of exactly one catalog record, best (default
\* sort, no filters) is that record.
C4_AnyCap ==
  /\ (Served /\ Only("phone") /\ DefaultOrder /\ Cardinality(PhoneHolders) = 1)
       => \A i \in PhoneHolders : resp.best = Record(i)
  /\ (Served /\ Only("facebook") /\ DefaultOrder /\ Cardinality(FacebookHolders) = 1)
       => \A i \in FacebookHolders : resp.best = Record(i)

\* C4, amended: when MAX_CANDIDATES is at least 1, for a phone-only query
\* whose last-ten-digit key is a phone key of exactly one catalog record, and
\* for a facebook-only query whose canonical handle is a handle of exactly one
\* catalog record, best (default sort, no filters) is that record.
C4_ExactPhoneOrFacebookIsBest ==
  MAX_CANDIDATES >= 1
    => /\ (Served /\ Only("phone") /\ DefaultOrder /\ Cardinality(PhoneHolders) = 1)
            => \A i \in PhoneHolders : resp.best = Record(i)
       /\ (Served /\ Only("facebook") /\ DefaultOrder
           /\ Cardinality(FacebookHolders) = 1)
            => \A i \in FacebookHolders : resp.best = Record(i)

\* a punctuated phone number with a country code found its record among
\* several, under the smallest cap
C4_Witness ==
  /\ Served /\ Only("phone") /\ req.phone = Q_phone_fmt
  /\ MAX_CANDIDATES = 1 /\ Len(profiles) >= 3
  /\ PhoneHolders = {0} /\ resp.best = P_acme

\* other page and perPage inputs
AltPaging ==
  { <<NoNum, NoNum>>, <<Num(4), Num(11)>>, <<Num(6), Num(10)>>, <<Num(2000), Num(-4)>>,
    <<NaNInput, Num(2000)>> }

\* C5: best is the profile of the first item of the filtered, sorted,
\* unpaginated list, null when that list is empty, and it is the same for
\* every other page and perPage input.
C5_BestIsFirstOfList ==
  Served
    => /\ resp.list = FinalList(resp.scored, Body, namesFallback.rows, lib.namesHits)
       /\ resp.best = IF resp.list = <<>> THEN Null ELSE resp.list[1].profile
       /\ \A pg \in AltPaging :
            LET alt == [Body EXCEPT !.page = pg[1], !.perPage = pg[2]]
            IN  Respond(FinalList(resp.scored, alt, namesFallback.rows, lib.namesHits),
                        resp.scored, alt, resp.ran).best = resp.best

\* the second page was served and best is not on it
C5_Witness ==
  /\ Served /\ resp.meta.page = 4 /\ resp.candidates # <<>>
  /\ resp.best = resp.list[1].profile
  /\ \A k \in 1..Len(resp.candidates) : resp.candidates[k].profile # resp.best

\* C6: whatever page and perPage are given, meta.perPage is in [5, 50],
\* meta.page is in [1, meta.totalPages] and candidates has at most
\* meta.perPage entries (page and perPage in halves).
C6_PaginationBounds ==
  Served
    => /\ resp.meta.perPage >= 10 /\ resp.meta.perPage <= 100
       /\ resp.meta.page >= 2 /\ resp.meta.page <= 2 * resp.meta.totalPages
       /\ 2 * Len(resp.candidates) <= resp.meta.perPage

RECURSIVE PagesFrom(_)
\* the candidates of the pages k, k + 1, ..., totalPages of the answered
\* request, one after the other
PagesFrom(k) ==
  IF k > resp.meta.totalPages THEN <<>>
  ELSE Respond(resp.list, resp.scored, [Body EXCEPT !.page = Num(2 * k)], resp.ran).candidates
       \o PagesFrom(k + 1)

\* C7: for a fixed query, filter, sort and perPage, the candidates of the
\* pages 1..totalPages, concatenated in order, are the full filtered and
\* sorted list.
C7_PagesConcatenate == Served => PagesFrom(1) = resp.list

\* three pages of a fractional page size
C7_Witness ==
  /\ Served /\ resp.meta.totalPages >= 3 /\ resp.meta.perPage = 11
  /\ Len(resp.list) > 11

\* C8: every candidate of a response satisfies the active filters: its score
\* is at least minScore when minScore > 0, and its name or website contains
\* the contains string, case-insensitively, when that is not empty; whichever
\* tier produced the list.
C8_CandidatesPassFilters ==
  Served
    => \A k \in 1..Len(resp.candidates) :
         LET c == resp.candidates[k]
         IN  /\ resp.meta.minScore > 0 => c.score >= resp.meta.minScore
             /\ resp.meta.contains # <<>> =>
                  \/ includes(toLowerCase(OrEmpty(c.profile.name)), resp.meta.contains)
                  \/ includes(toLowerCase(OrEmpty(c.profile.website)), resp.meta.contains)

\* C9: the candidates are ordered by the requested key in the requested
\* direction: of two consecutive candidates the first does not come after the
\* second; whichever tier produced the list.
C9_CandidatesSorted ==
  Served
    => \A k \in 1..(Len(resp.candidates) - 1) :
         SortCompare(resp.candidates[k], resp.candidates[k + 1],
                     resp.meta.sort, resp.meta.dir) <= 0

\* C10: two candidates from the catalog that have equal sort keys are listed
\* in the order of their catalog positions, the lower first.
C10_TiesByCatalogPosition ==
  (Served /\ resp.scored # <<>>)
    => \A k \in 1..(Len(resp.candidates) - 1) :
         SortCompare(resp.candidates[k], resp.candidates[k + 1],
                     resp.meta.sort, resp.meta.dir) = 0
           => resp.candidates[k].idx < resp.candidates[k + 1].idx

\* C11: for a fixed catalog, two served requests with equal bodies get the
\* same best and the same candidates (items, scores, order), whatever was
\* served before or between them.
C11_Deterministic ==
  (pc = "done" /\ resp.status = 200 /\ SameBody(req, det.probe) /\ det.count > 0)
    => /\ resp.best = det.seen.best
       /\ resp.candidates = det.seen.candidates

\* the followed body was answered from the names dataset twice: the first
\* answer read the file, this one uses the cache
C11_Witness ==
  /\ pc = "done" /\ resp.status = 200 /\ SameBody(req, det.probe) /\ det.count = 2
  /\ "readCsv" \in det.seen.ran /\ "names" \in resp.ran /\ "readCsv" \notin resp.ran
  /\ resp.candidates # <<>>

\* C12: in a response whose list comes from the catalog (signal union, strict
\* fuzzy, post-scoring fuzzy or brute force), no two entries of the list, and
\* so no two candidates, reference the same catalog position.
C12_DistinctPositions ==
  (Served /\ resp.scored # <<>>)
    => /\ \A j, k \in 1..Len(resp.list) :
            j # k => resp.list[j].idx # resp.list[k].idx
       /\ \A j, k \in 1..Len(resp.candidates) :
            j # k => resp.candidates[j].idx # resp.candidates[k].idx

\* the whole-field search and the token searches returned the same positions
\* and the signal union was scored
C12_Witness ==
  /\ Served /\ "safetynet" \notin resp.ran
  /\ Len(lib.mini.full) >= 3 /\ lib.mini.tok = lib.mini.full
  /\ UsesMiniTok(Signals(Body, maps))
  /\ Len(resp.candidates) >= 3

\* the request passed the schema, the empty-query check and the CSRF check
Admitted ==
  pc \in {"done", "crashed"} /\ QuerySchema(req).success /\ HasField(Body) /\ ~CsrfRejected(req, Body)

\* the names dataset gave nothing: readCsv threw or returned no row in this
\* request, or the cache was loaded before and holds no row
NamesUnavailable ==
  \/ "readCsv" \in resp.ran /\ lib.csv.rows = <<>>
  \/ "readCsv" \notin resp.ran /\ namesFallback.rows = <<>>

\* C13: with an empty catalog and the names dataset missing, unreadable or
\* empty, a non-empty query is answered with status 200, no candidates and
\* best null; every earlier tier has run and the names tier was attempted.
C13_EmptyCatalogDegrades ==
  (Admitted /\ Len(profiles) = 0 /\ NamesUnavailable)
    => /\ pc = "done" /\ resp.status = 200
       /\ resp.candidates = <<>> /\ resp.best = Null /\ resp.meta.total = 0
       /\ {"candidates", "score", "strict20", "safetynet", "loose", "brute", "names"}
            \subseteq resp.ran

\* the positions that share a domain token with the host of the query website
DomainHolders ==
  { i \in Positions :
      \E t \in Range(domainTokens(extractHost(Body.website))) :
        t \in Range(profiles[i + 1]._domainTokens) }

\* the positions the exact lookups of the present fields give
ExactHits ==
  (IF Truthy(Body.website) THEN SiteHolders \cup DomainHolders ELSE {})
  \cup (IF Truthy(Body.phone) THEN PhoneHolders ELSE {})
  \cup (IF Truthy(Body.facebook) THEN FacebookHolders ELSE {})

\* the positions the text index answered to the searches of this request
TextHits == Range(lib.mini.full) \cup Range(lib.mini.tok)

FirstPositions == { resp.first[k].idx : k \in 1..Len(resp.first) }

\* C18: the strict fuzzy fallback before scoring runs exactly when the signal
\* union (exact-lookup hits and text-index hits of the present fields) is
\* empty; when it runs, the candidates that are scored are among the first 20
\* hits of the strict index.
C18_StrictFallbackIffUnionEmpty ==
  Admitted
    => /\ "strict20" \in resp.ran <=> (ExactHits \cup TextHits = {})
       /\ "strict20" \in resp.ran
            => /\ Len(resp.first) <= 20
               /\ FirstPositions \subseteq Range(RefIndexes(Take(lib.strict, 20)))
       /\ "strict20" \notin resp.ran => FirstPositions \subseteq ExactHits \cup TextHits

\* the strict index answered more than 20 hits to the fallback and 20 of them
\* were scored
C18_Witness ==
  /\ Served /\ "strict20" \in resp.ran /\ Len(lib.strict) > 20
  /\ Len(resp.first) = 20 /\ MAX_CANDIDATES = DefaultMaxCandidates

\* nothing was scored from the candidates, or every score is exactly 0
NothingScored ==
  resp.first = <<>> \/ \A k \in 1..Len(resp.first) : resp.first[k].score = 0

\* the first ten hits of the strict index, of the loose index when it has none
NetHits ==
  IF lib.strict # <<>> THEN SubSeq(lib.strict, 1, Min(10, Len(lib.strict)))
  ELSE SubSeq(lib.loose, 1, Min(10, Len(lib.loose)))

\* C19: whenever nothing was scored or every scored candidate has score 0,
\* the strict index is searched; the loose index is searched only if the
\* strict search returned nothing; if either returns hits, the scored list
\* becomes those hits (at most ten, in the order of the index), and otherwise
\* the brute force runs.  When some score is positive neither is searched.
C19_SafetyNet ==
  Admitted
    => /\ "safetynet" \in resp.ran <=> NothingScored
       /\ "loose" \in resp.ran <=> (NothingScored /\ lib.strict = <<>>)
       /\ "loose" \notin resp.ran => lib.loose = <<>>
       /\ (NothingScored /\ NetHits # <<>>)
            => /\ Len(resp.scored) = Len(NetHits)
               /\ \A k \in 1..Len(NetHits) :
                    /\ resp.scored[k].idx = NetHits[k].refIndex
                    /\ resp.scored[k].profile = Record(NetHits[k].refIndex)
                    /\ resp.scored[k].score >= 100
               /\ "brute" \notin resp.ran
       /\ (NothingScored /\ NetHits = <<>>) => "brute" \in resp.ran

\* candidates were scored, every score was 0, the strict index had nothing
\* and the loose index answered more than ten hits
C19_Witness ==
  /\ Served /\ resp.first # <<>> /\ NothingScored
  /\ lib.strict = <<>> /\ Len(lib.loose) > 10 /\ Len(resp.scored) = 10

SomePositive == \E k \in 1..Len(resp.first) : resp.first[k].score > 0

\* C20: if a candidate scored from the signal union or from the strict
\* fallback before scoring has a positive score, no later tier runs (no fuzzy
\* search after scoring, no brute force, no names fallback), the request is
\* answered, and without filters the list holds exactly the scored
\* candidates.
C20_TerminalOnPositive ==
  (Admitted /\ SomePositive)
    => /\ resp.ran \cap {"safetynet", "loose", "brute", "names", "readCsv"} = {}
       /\ lib.loose = <<>> /\ lib.namesHits = <<>>
       /\ Served /\ resp.scored = resp.first
       /\ (MinScoreOf(Body) = 0 /\ ContainsOf(Body) = <<>>)
            => /\ Len(resp.list) = Len(resp.first)
               /\ Range(resp.list) = Range(resp.first)

\* a positive and a zero score among the scored candidates of a request
\* without filters
C20_Witness ==
  /\ Served /\ SomePositive /\ \E k \in 1..Len(resp.first) : resp.first[k].score = 0
  /\ MinScoreOf(Body) = 0 /\ ContainsOf(Body) = <<>> /\ Len(resp.list) >= 3

\* C14: canonicalUrl and canonicalFacebook are idempotent: applied to their
\* own result they return it unchanged.
C14_Idempotent ==
  (arg.fn \in {"canonicalUrl", "canonicalFacebook"} /\ Len(out) = 2) => out[2] = out[1]

TypoSchemes ==
  { <<"h","t","t","p","s","/","/">>, <<"h","t","t","p","/","/">>,
    SchemeHttps \o <<"h","t","t","p","s","/","/">>, SchemeHttps \o SchemeHttps }

\* C15: a website written with a missing scheme colon (https//h, http//h)
\* or a duplicated scheme (https://https//h/, https://https://h) has the
\* canonical key of https://h; a trailing slash after the host changes
\* nothing.
C15_SchemeTypoRepair ==
  (arg.fn = "canonicalUrl" /\ arg.scheme \in TypoSchemes /\ Len(out) >= 1)
    => /\ out[1] = canonicalUrl(SchemeHttps \o arg.rest)
       /\ arg.path \in {<<>>, <<"/">>}
            => /\ out[1] = canonicalUrl(SchemeHttps \o arg.host)
               /\ out[1] = StripWww(arg.host)

\* https://https//acornlawpc.com/ has been canonicalized to acornlawpc.com
C15_Witness ==
  /\ arg.fn = "canonicalUrl"
  /\ arg.scheme = SchemeHttps \o <<"h","t","t","p","s","/","/">>
  /\ arg.rest = <<"a","c","o","r","n","l","a","w","p","c",".","c","o","m","/">>
  /\ out = << <<"a","c","o","r","n","l","a","w","p","c",".","c","o","m">> >>

\* C16: the name signal contributes at most 3 points, and a name that is not
\* equal after normalization gets no more than the 3 points of an exact
\* match.
C16_NameSignalAtMost3 ==
  (arg.fn = "fastScore" /\ out # <<>>)
    => /\ out[1] <= 3000
       /\ normalizeText(arg.name) = normalizeText(arg.candidate) => out[1] = 3000

NoWindow == [start |-> -1, count |-> 0]

RECURSIVE WindowAt(_, _)
\* the window of an ip after the first k arrivals: the first request to a
\* route other than /health starts a window, every further one within
\* RATE_WIN of its start is counted in it, the first one after its reset
\* time starts a new window with count 1
WindowAt(k, ip) ==
  IF k = 0 THEN NoWindow
  ELSE IF log[k].ip # ip \/ RouteOf(log[k].url) = "/health" THEN WindowAt(k - 1, ip)
  ELSE IF WindowAt(k - 1, ip) = NoWindow
          \/ log[k].t > WindowAt(k - 1, ip).start + RATE_WIN
       THEN [start |-> log[k].t, count |-> 1]
  ELSE [WindowAt(k - 1, ip) EXCEPT !.count = @ + 1]

\* C17: per ip, the first RATE_MAX requests of a window to routes other than
\* /health are served and every further one in the window is answered 429;
\* a request after the reset time starts a new window with count 1; requests
\* to /health are neither counted nor limited; the ips are independent.
C17_RateLimit ==
  \A k \in 1..Len(log) :
    IF RouteOf(log[k].url) = "/health" THEN log[k].status = 200
    ELSE log[k].status = 429 <=> WindowAt(k, log[k].ip).count > RATE_MAX

ScoredPositions == { resp.scored[k].idx : k \in 1..Len(resp.scored) }

\* the score the request's features give the record at position i
SignalScore(i) == fastScore(PreFeatures(Body), profiles[i + 1])

\* C21: the brute force runs exactly when the safety net was entered and
\* neither fuzzy index returned a hit; it scores records with the scorer of
\* the candidates, keeps at most 10 in descending score order, and when the
\* whole catalog is scored no record left out scores higher than a kept one.
C21_BruteForce ==
  Admitted
    => /\ "brute" \in resp.ran
            <=> (NothingScored /\ lib.strict = <<>> /\ lib.loose = <<>>)
       /\ (Served /\ "brute" \in resp.ran)
            => /\ Len(resp.scored) <= 10
               /\ \A k \in 1..Len(resp.scored) :
                    /\ resp.scored[k].score = SignalScore(resp.scored[k].idx)
                    /\ resp.scored[k].profile = Record(resp.scored[k].idx)
                    /\ k > 1 => resp.scored[k - 1].score >= resp.scored[k].score
               /\ Len(profiles) <= MAX_BRUTE_FORCE
                    => /\ Len(resp.scored) = Min(10, Len(profiles))
                       /\ \A i \in Positions \ ScoredPositions :
                            \A k \in 1..Len(resp.scored) :
                              SignalScore(i) <= resp.scored[k].score

\* the brute force kept 10 of 22 records, with different scores among them
C21_Witness ==
  /\ Served /\ "brute" \in resp.ran /\ Len(profiles) > 10
  /\ Len(profiles) <= MAX_BRUTE_FORCE
  /\ Len(resp.scored) = 10 /\ resp.scored[1].score > resp.scored[10].score

\* C22: when the catalog is larger than MAX_BRUTE_FORCE, at most
\* MAX_BRUTE_FORCE positions are scored; they start at position 0 and are
\* equally spaced; and they are not the prefix of the catalog (for a cap of
\* at least 2, the sample is not the first positions 0, 1, 2, ...).
C22_StridedSample ==
  (arg.fn = "bruteSubset" /\ out # <<>> /\ arg.N > arg.cap)
    => /\ Len(out[1]) <= arg.cap
       /\ out[1] # <<>> => out[1][1] = 0
       /\ \A k \in 2..Len(out[1]) : out[1][k] - out[1][k - 1] = out[1][2] - out[1][1]
       /\ \A k \in 1..Len(out[1]) : out[1][k] < arg.N
       /\ arg.cap >= 2 => out[1] # [k \in 1..Len(out[1]) |-> k - 1]

\* the signal union of the request in the order its positions were added
UnionInOrder == SignalUnion(Body, Signals(Body, maps), lib.mini)

FirstInOrder == [k \in 1..Len(resp.first) |-> resp.first[k].idx]

IsStub(item) ==
  /\ item.profile.phones = <<>> /\ item.profile.facebook = <<>>
  /\ item.score >= 100 /\ item.score <= 400
  /\ \E r \in 1..Len(namesFallback.rows) :
       /\ item.profile.website = namesFallback.rows[r].website
       /\ item.profile.name = namesFallback.rows[r].name

C25_LoadedOnce ==
  /\ load.reads <= 1
  /\ \A c, d \in Callers :
       (load.at[c] = "returned" /\ load.at[d] = "returned") => load.got[c] = load.got[d]

\* C26: no /match request changes the catalog, its precomputed features or
\* the four lookup maps: every step leaves profiles and maps as they were,
\* and in every state they are what loadIndexFrom computed from the records.
C26_CatalogNeverMutated ==
  /\ [](/\ maps = LookupMaps(profiles)
        /\ profiles = AugProfiles([i \in 1..Len(profiles) |-> RawProfile(profiles[i])]))
  /\ [][profiles' = profiles /\ maps' = maps]_vars

\* a request went through every tier down to the brute-force scan, and its
\* list was filtered and sorted by name
C26_Witness ==
  /\ Served /\ "brute" \in resp.ran /\ Len(resp.list) > 1
  /\ SortKeyOf(Body) = "name"

\* |A \cap B| / |A \cup B| over token sets, 0 when the union is empty
TokenJaccard(A, B) ==
  [num |-> Cardinality(A \cap B), den |-> Max(1, Cardinality(A \cup B))]

\* the points of the first step <<num, den, points>> whose threshold num/den
\* the ratio r reaches, steps given from the highest threshold down
StepPoints(r, steps) ==
  LET hit == { k \in 1..Len(steps) : r.num * steps[k][2] >= steps[k][1] * r.den }
  IN  IF hit = {} THEN 0
      ELSE steps[CHOOSE k \in hit : \A j \in hit : k <= j][3]

NameSteps == << <<8, 10, 2000>>, <<5, 10, 1500>>, <<3, 10, 1000>>, <<25, 100, 500>> >>

EditSteps == << <<9, 10, 1500>>, <<8, 10, 1000>> >>

DomainSteps == << <<8, 10, 2000>>, <<6, 10, 1500>>, <<4, 10, 1000>>, <<25, 100, 500>> >>

\* the points of each signal for the answered query and catalog record c;
\* a signal whose query field is missing, or whose key is empty on either
\* side, gives 0
SitePoints(c) ==
  IF Truthy(Body.website) /\ canonicalUrl(Body.website) # <<>>
     /\ canonicalUrl(Body.website) = c._canonSite
  THEN 5000 ELSE 0

NamePoints(c) ==
  IF ~Truthy(Body.name) \/ normalizeText(Body.name) = <<>> \/ c._nameNorm = <<>> THEN 0
  ELSE IF normalizeText(Body.name) = c._nameNorm THEN 3000
  ELSE StepPoints(TokenJaccard(Range(nameTokens(normalizeText(Body.name))),
                               Range(c._nameTokens)), NameSteps)
       + StepPoints(levenshteinRatio(normalizeText(Body.name), c._nameNorm), EditSteps)

DomainPoints(c) ==
  IF ~Truthy(Body.website) THEN 0
  ELSE StepPoints(TokenJaccard(Range(domainTokens(extractHost(Body.website))),
                               Range(c._domainTokens)), DomainSteps)

PhonePoints(c) ==
  IF Truthy(Body.phone) /\ last10(Body.phone) \in c._last10Phones THEN 3000 ELSE 0

FacebookPoints(c) ==
  IF Truthy(Body.facebook) /\ canonicalFacebook(Body.facebook) \in c._fbHandles
  THEN 4000 ELSE 0

SignalSum(c) ==
  SitePoints(c) + NamePoints(c) + DomainPoints(c) + PhonePoints(c) + FacebookPoints(c)

\* the entries that were given a tier-1 score: the list scored at line 552
\* and, when the brute-force scan ran, its result
TierOneEntries ==
  Range(resp.first) \cup (IF "brute" \in resp.ran THEN Range(resp.scored) ELSE {})

BucketHalves == {1, 2, 3, 4, 6, 8, 10}

LowestSignalScore == CHOOSE v \in { Points(h) : h \in BucketHalves } :
                       \A h \in BucketHalves : v <= Points(h)

\* the scored list was taken from the fuzzy hits after scoring
FuzzyTierAnswered == Served /\ NothingScored /\ NetHits # <<>>

FuzzyAtMostSignals ==
  FuzzyTierAnswered
    => \A k \in 1..Len(resp.scored) :
         /\ resp.scored[k].score >= 100 /\ resp.scored[k].score <= 500
         /\ resp.scored[k].score <= LowestSignalScore

\* the phone signal was computed for a request phone with fewer than ten
\* digits
ShortPhoneAsked ==
  arg.fn = "phoneSignal" /\ out # <<>> /\ Len(digits(arg.phone)) < 10

\* C29: a request phone with fewer than ten digits matches nothing: it adds
\* no record to the candidates and no phone points to a score.
C29_ShortPhoneNeverMatches ==
  ShortPhoneAsked => (out[1].ids = <<>> /\ out[1].score = 0)

\* the part of C29 that holds: a short request phone misses every catalog
\* phone of ten digits or more, and one without digits misses everything
ShortPhoneMissesFullNumbers ==
  (ShortPhoneAsked /\ (Len(digits(arg.candidate)) >= 10 \/ digits(arg.phone) = <<>>))
    => (out[1].ids = <<>> /\ out[1].score = 0)

\* C30: scoreMatch on the request in profile form and fastScore on the
\* request's precomputed features give the same score for every request and
\* every augmented record.
C30_ScorersAgree ==
  (arg.fn = "scoreMatch" /\ out # <<>>) => out[1].exported = out[1].fast

\* both scorers gave the same score of more than one signal, with a name
\* that differs from its normalized form
C30_Witness ==
  /\ arg.fn = "scoreMatch" /\ out # <<>>
  /\ out[1].exported = out[1].fast /\ out[1].fast > Points(10)
  /\ Truthy(arg.query.name) /\ normalizeText(arg.query.name) # arg.query.name

=============================================================================
